---- MODULE Spec2Model ----
(***************************************************************************)
(* Update orchestration of nova_hub.                                       *)
(*                                                                         *)
(* The repository holds two implementations of the update pipeline:        *)
(*   - "core": ui/main_window.py (MainWindow) driving core/update_worker.py*)
(*     (UpdateWorker) and core/config_manager.py (AppConfigManager);       *)
(*   - "hub": app_hub_ui.py (AppHubWindow) driving app_update_worker.py    *)
(*     (UpdateWorker, a QThread) and app_updater/updater.py (AppUpdater).  *)
(* SpecCore and SpecHub are the state machines of the two.  Strings whose  *)
(* characters matter (hex digests, version strings) are sequences of       *)
(* one-character strings.                                                  *)
(***************************************************************************)
EXTENDS Integers, Sequences, FiniteSets, Bags, TLC

VARIABLES
    remote,         \* VersionManager snapshot: app id -> remote entry
    cfgMem,         \* AppConfigManager, in memory: app id -> version
    cfgDisk,        \* appconfig.json on disk: app id -> version
    staged,         \* download directory: app id -> file at <download_dir>/<filename>
    installed,      \* apps directory: app id -> installed tree
    workers,        \* the live workers: a bag of session records (thread + worker object)
    btnEnabled,     \* MainWindow table: app id -> the row's Update button is enabled
    commitLog,      \* app ids for which update_local_version has been called
    update_workers, \* AppHubWindow.update_workers: the app ids that are keys
    checkWorker,    \* CheckUpdatesWorker: its state and the dict it emitted
    startQueue,     \* app ids left in the loop of on_check_updates_finished
    waiting,        \* the main thread is blocked in QThread.wait() (UpdateWorker.cancel)
    started,        \* the number of calls of AppHubWindow._start_update so far
    call            \* the last call of a single operation: its arguments and what it gave

vars == <<remote, cfgMem, cfgDisk, staged, installed, workers, btnEnabled, commitLog,
          update_workers, checkWorker, startQueue, waiting, started, call>>

hubVars == <<update_workers, checkWorker, startQueue, waiting, started, call>>

coreVars == <<btnEnabled, commitLog, call>>

----------------------------------------------------------------------------
(* Bounds *)

\* Workers that can be alive at once.
MaxWorkers == 2

\* Calls of AppHubWindow._start_update in a run.
MaxStarts == 2

Apps == {"a", "b"}

\* Order of the entries of appconfig.json.
AppOrder == <<"a", "b">>

----------------------------------------------------------------------------
(* Strings *)

LowerChar(c) ==
    CASE c = "A" -> "a"
      [] c = "B" -> "b"
      [] c = "C" -> "c"
      [] c = "D" -> "d"
      [] c = "E" -> "e"
      [] c = "F" -> "f"
      [] OTHER -> c

\* str.lower()
Lower(s) == [i \in DOMAIN s |-> LowerChar(s[i])]

IsSpace(c) == c = " "

RECURSIVE LStrip(_)
LStrip(s) == IF s # <<>> /\ IsSpace(Head(s)) THEN LStrip(Tail(s)) ELSE s

RECURSIVE RStrip(_)
RStrip(s) ==
    IF s # <<>> /\ IsSpace(s[Len(s)]) THEN RStrip(SubSeq(s, 1, Len(s) - 1)) ELSE s

\* str.strip()
Strip(s) == RStrip(LStrip(s))

\* A version that is not a string but None (a JSON null, a missing key).
NonString == <<"None">>

\* Version strings of the manifests.
VLocal == <<"1", ".", "0", ".", "0">>
VRemote == <<"1", ".", "1", ".", "0">>

\* Digests hashlib can report for a staged file (lower-case hex), and the digest
\* of a file whose stream has not completed.
DigestGood == <<"a", "b">>
DigestBad == <<"c", "d">>
DigestPartial == <<"0", "0">>
Digests == {DigestGood, DigestBad}

\* The sha256 fields a remote entry can carry: absent/empty, or upper-case hex.
ShaNone == <<>>
ShaExpected == <<"A", "B">>

\* The file_type fields a remote entry can carry.
FileTypes == {"rar", "EXE", "zip"}

\* str.lower() of a file_type field.
LowerType(t) ==
    CASE t = "EXE" -> "exe"
      [] t = "RAR" -> "rar"
      [] t = "ZIP" -> "zip"
      [] OTHER -> t

----------------------------------------------------------------------------
(* Manifests *)

NoEntry == [present |-> FALSE, version |-> <<>>, file_type |-> "rar", sha256 |-> ShaNone]

RemoteEntries ==
    {NoEntry} \cup
    [present : {TRUE}, version : {VRemote}, file_type : FileTypes,
     sha256 : {ShaNone, ShaExpected}]

\* VersionManager.get_app_version_info
get_app_version_info(a) == remote[a]

\* (version or ""): the empty string for None and for the empty string.
OrEmpty(version) == IF version = NonString THEN <<>> ELSE version

\* core VersionManager.is_update_needed
is_update_needed(local_version, remote_version) ==
    Strip(OrEmpty(local_version)) # Strip(OrEmpty(remote_version))

----------------------------------------------------------------------------
(* Files *)

Absent == [state |-> "absent", digest |-> <<>>]
PartialFile == [state |-> "partial", digest |-> DigestPartial]
CompleteFile(d) == [state |-> "complete", digest |-> d]

\* The file a path holds after an unlink: gone, or still there when the
\* operating system refuses (file in use, no permission).
UnlinkOutcomes(f) == IF f.state = "absent" THEN {f} ELSE {Absent, f}

----------------------------------------------------------------------------
(* Sessions *)

\* A worker just constructed for app a.
NewWorker(a, pc0) ==
    [app |-> a, pc |-> pc0, success |-> FALSE, applied |-> "none",
     appliedDigest |-> <<>>, btnStale |-> FALSE, fromVersion |-> cfgMem[a],
     outcome |-> "none", remote_info |-> get_app_version_info(a),
     tracked |-> FALSE]

Live == BagToSet(workers)

Add(B, r) == B (+) SetToBag({r})

Remove(B, r) == B (-) SetToBag({r})

Replace(B, r, r2) == Add(Remove(B, r), r2)

RECURSIVE Copies(_, _)
Copies(B, S) ==
    IF S = {} THEN 0
    ELSE LET r == CHOOSE x \in S : TRUE IN CopiesIn(r, B) + Copies(B, S \ {r})

\* A worker whose run() has begun and has not yet emitted finished.
RunningPcs == {"cleanup", "start", "open", "stream", "verify", "apply"}

InFlight(r) == r.pc \in RunningPcs

\* The number of in-flight sessions of app a.
SessionsOf(a) == Copies(workers, {r \in Live : r.app = a /\ InFlight(r)})

\* CheckUpdatesWorker before start / after its result was handled.
CheckIdle == [state |-> "idle", updates |-> <<>>]

\* No single operation has been called.
NoCall == [op |-> "none"]

\* The remote manifests a run starts from: any entry for app "a", an archive
\* with a checksum for app "b".
RemoteManifests ==
    {m \in [Apps -> RemoteEntries] :
        m["b"] = [present |-> TRUE, version |-> VRemote, file_type |-> "rar",
                  sha256 |-> ShaExpected]}

Init ==
    /\ remote \in RemoteManifests
    /\ cfgMem = [a \in Apps |-> VLocal]
    /\ cfgDisk = [a \in Apps |-> VLocal]
    /\ staged = [a \in Apps |-> Absent]
    /\ installed = [a \in Apps |-> "old"]
    /\ workers = EmptyBag
    /\ btnEnabled = [a \in Apps |-> remote[a].present]
    /\ commitLog = {}
    /\ update_workers = {}
    /\ checkWorker = CheckIdle
    /\ startQueue = <<>>
    /\ waiting = FALSE
    /\ started = 0
    /\ call = NoCall

----------------------------------------------------------------------------
(* core: AppConfigManager *)

\* AppConfigManager.update_local_version: the entry of app_id changed in
\* memory, then the whole in-memory document dumped to the file.
CoreCommitMem(app_id, new_version) == [cfgMem EXCEPT ![app_id] = new_version]

\* A commit that dumps the document as it was loaded at start-up with only the
\* entry of app_id changed, instead of the current in-memory document.
CommitFromStartupDocument(app_id, new_version) ==
    [[a \in Apps |-> VLocal] EXCEPT ![app_id] = new_version]

CoreCommitDisk(app_id, new_version) == CoreCommitMem(app_id, new_version)

----------------------------------------------------------------------------
(* core: MainWindow *)

\* MainWindow._populate_table: every row gets a new Update button, enabled
\* exactly when the app has remote info; the buttons held by workers are not
\* in the table any more.
PopulateButtons == [a \in Apps |-> get_app_version_info(a).present]

MarkStale(r) == IF r.pc = "handled" THEN r ELSE [r EXCEPT !.btnStale = TRUE]

\* The workers B after a _populate_table: the bag of MarkStale(r) for r in B.
MarkAllStale(B) ==
    LET img == {MarkStale(r) : r \in BagToSet(B)}
    IN  [x \in img |-> Copies(B, {r \in BagToSet(B) : MarkStale(r) = x})]

\* MainWindow._on_update_clicked
OnUpdateClicked(a) ==
    /\ btnEnabled[a]
    /\ get_app_version_info(a).present
    /\ IF ~is_update_needed(cfgMem[a], get_app_version_info(a).version)
         THEN UNCHANGED vars
         ELSE /\ BagCardinality(workers) < MaxWorkers
              /\ btnEnabled' = [btnEnabled EXCEPT ![a] = FALSE]
              /\ workers' = Add(workers, NewWorker(a, "cleanup"))
              /\ UNCHANGED <<remote, cfgMem, cfgDisk, staged, installed, commitLog,
                             hubVars>>

\* The installed tree after delete_dir_if_exists: removed, or left as it is
\* when rmtree fails (the warning is logged and nothing raised).
RmtreeOutcomes(t) == {"none", t}

\* core UpdateWorker.run, steps 1-3: delete_file_if_exists(dest_path), and for
\* a rar update delete_dir_if_exists of the installed tree.
CoreCleanup(r) ==
    LET a == r.app
        ft == LowerType(remote[a].file_type)
    IN  /\ r.pc = "cleanup"
        /\ staged' \in {[staged EXCEPT ![a] = f] : f \in UnlinkOutcomes(staged[a])}
        /\ installed' \in IF ft = "rar"
                            THEN {[installed EXCEPT ![a] = t] : t \in RmtreeOutcomes(installed[a])}
                            ELSE {installed}
        /\ workers' = Replace(workers, r, [r EXCEPT !.pc = "open"])
        /\ UNCHANGED <<remote, cfgMem, cfgDisk, btnEnabled, commitLog, hubVars>>

\* run()'s except clause: finished(error_message, False).
CoreFail(r, why) == [r EXCEPT !.pc = "emitted", !.success = FALSE, !.outcome = why]

\* _download_with_progress up to dest_path.open("wb"): _find_file_id_by_name
\* finds nothing or raises, or the request is refused (raise_for_status); else
\* the file is created empty.
CoreOpen(r) ==
    LET a == r.app
    IN  /\ r.pc = "open"
        /\ \/ /\ workers' = Replace(workers, r, [r EXCEPT !.pc = "stream"])
              /\ staged' = [staged EXCEPT ![a] = PartialFile]
           \/ /\ workers' = Replace(workers, r, CoreFail(r, "download"))
              /\ UNCHANGED staged
        /\ UNCHANGED <<remote, cfgMem, cfgDisk, installed, btnEnabled, commitLog,
                       hubVars>>

\* The file at the path when a stream that wrote digest d is closed: the path
\* keeps the data unless the file was unlinked under the writer.
Closed(f, d) == IF f.state = "absent" THEN f ELSE CompleteFile(d)

\* _download_with_progress: the loop over resp.iter_content, after any number
\* of chunks written.  The transport fails (the exception leaves the file as it
\* is), or the stream ends.
CoreStream(r) ==
    LET a == r.app
    IN  /\ r.pc = "stream"
        /\ \/ /\ workers' = Replace(workers, r, CoreFail(r, "download"))
              /\ UNCHANGED staged
           \/ \E d \in Digests :
                /\ workers' = Replace(workers, r, [r EXCEPT !.pc = "apply"])
                /\ staged' = [staged EXCEPT ![a] = Closed(@, d)]
        /\ UNCHANGED <<remote, cfgMem, cfgDisk, installed, btnEnabled, commitLog,
                       hubVars>>

\* The worker after its apply step succeeded: finished(message, True).
Completed(r, how, f) ==
    [r EXCEPT !.pc = "emitted", !.success = TRUE, !.outcome = "completed",
              !.applied = how, !.appliedDigest = f.digest]

\* core extract_rar then delete_file_if_exists, run_exe, or unknown type; then
\* the finished signal.
\*   rar: a missing file makes extract_rar return False (nothing raised);
\*        a failing extraction raises.
\*   exe: run_exe logs a failing Popen and returns.
CoreApply(r) ==
    LET a == r.app
        ft == LowerType(remote[a].file_type)
        f == staged[a]
    IN  /\ r.pc = "apply"
        /\ IF ft = "rar"
             THEN IF f.state = "absent"
                    THEN /\ workers' = Replace(workers, r, Completed(r, "nofile", f))
                         /\ UNCHANGED <<staged, installed>>
                    ELSE \/ /\ workers' = Replace(workers, r, Completed(r, "extracted", f))
                            /\ installed' = [installed EXCEPT ![a] = "new"]
                            /\ staged' \in {[staged EXCEPT ![a] = g] :
                                                g \in UnlinkOutcomes(f)}
                         \/ /\ workers' = Replace(workers, r, CoreFail(r, "extract"))
                            /\ UNCHANGED <<staged, installed>>
             ELSE IF ft = "exe"
                    THEN /\ \/ workers' = Replace(workers, r, Completed(r, "launched", f))
                            \/ workers' = Replace(workers, r, Completed(r, "nospawn", f))
                         /\ UNCHANGED <<staged, installed>>
                    ELSE /\ workers' = Replace(workers, r, CoreFail(r, "filetype"))
                         /\ UNCHANGED <<staged, installed>>
        /\ UNCHANGED <<remote, cfgMem, cfgDisk, btnEnabled, commitLog, hubVars>>

\* The worker between its finished slot and the end of its thread.
Handled(r) == [NewWorker(r.app, "handled") EXCEPT !.tracked = r.tracked]

\* MainWindow._on_worker_finished, queued to the main thread, followed by the
\* thread.quit() slot of the same signal.  worker.button is the button of the
\* table as it was when the update was clicked: after a _populate_table it is
\* a deleted widget, and btn.setEnabled(True) on it either has no effect on
\* the table or raises in the binding and ends the slot.
OnWorkerFinished(r) ==
    LET a == r.app
        info == get_app_version_info(a)
        handled == Replace(workers, r, [Handled(r) EXCEPT !.fromVersion = <<>>])
    IN  /\ r.pc = "emitted"
        /\ \/ /\ r.btnStale
              /\ workers' = handled
              /\ UNCHANGED <<cfgMem, cfgDisk, btnEnabled, commitLog>>
           \/ /\ r.success
              /\ cfgMem' = IF info.present THEN CoreCommitMem(a, info.version) ELSE cfgMem
              /\ cfgDisk' = IF info.present THEN CoreCommitDisk(a, info.version)
                            ELSE cfgDisk
              /\ commitLog' = IF info.present THEN commitLog \cup {a} ELSE commitLog
              /\ btnEnabled' = PopulateButtons
              /\ workers' = MarkAllStale(handled)
           \/ /\ ~r.success
              /\ workers' = handled
              /\ btnEnabled' = IF r.btnStale THEN btnEnabled
                               ELSE [btnEnabled EXCEPT ![a] = TRUE]
              /\ UNCHANGED <<cfgMem, cfgDisk, commitLog>>
        /\ UNCHANGED <<remote, staged, installed, hubVars>>

\* A thread whose finished signal removes nothing from MainWindow._threads.
ThreadKept(r) ==
    /\ r.pc = "handled"
    /\ UNCHANGED vars

\* thread.finished: the thread leaves MainWindow._threads and is deleted.
ThreadFinished(r) ==
    /\ r.pc = "handled"
    /\ workers' = Remove(workers, r)
    /\ UNCHANGED <<remote, cfgMem, cfgDisk, staged, installed, btnEnabled, commitLog,
                   hubVars>>

NextCore ==
    \/ \E a \in Apps : OnUpdateClicked(a)
    \/ \E r \in Live : CoreCleanup(r)
    \/ \E r \in Live : CoreOpen(r)
    \/ \E r \in Live : CoreStream(r)
    \/ \E r \in Live : CoreApply(r)
    \/ \E r \in Live : OnWorkerFinished(r)
    \/ \E r \in Live : ThreadFinished(r)

SpecCore == Init /\ [][NextCore]_vars

----------------------------------------------------------------------------
(* hub: app_updater.VersionManager *)

IsDigit(c) == c \in {"0", "1", "2", "3", "4", "5", "6", "7", "8", "9"}

DigitVal(c) ==
    CASE c = "0" -> 0 [] c = "1" -> 1 [] c = "2" -> 2 [] c = "3" -> 3 [] c = "4" -> 4
      [] c = "5" -> 5 [] c = "6" -> 6 [] c = "7" -> 7 [] c = "8" -> 8 [] c = "9" -> 9

\* str.split("."): the parts between dots; acc is the part being read.
RECURSIVE SplitDot(_, _)
SplitDot(s, acc) ==
    IF s = <<>> THEN <<acc>>
    ELSE IF Head(s) = "." THEN <<acc>> \o SplitDot(Tail(s), <<>>)
    ELSE SplitDot(Tail(s), Append(acc, Head(s)))

\* int(p) succeeds: digits, possibly inside white space.
IsInt(p) ==
    LET s == Strip(p) IN s # <<>> /\ \A i \in DOMAIN s : IsDigit(s[i])

RECURSIVE DigitsVal(_, _)
DigitsVal(p, acc) ==
    IF p = <<>> THEN acc ELSE DigitsVal(Tail(p), 10 * acc + DigitVal(Head(p)))

IntOf(p) == DigitsVal(Strip(p), 0)

\* parse_version in compare_versions: the first three parts as integers;
\* (0, 0, 0) when a part is no integer (ValueError) or the version is not a
\* string (AttributeError).
parse_version(version_str) ==
    LET parts == SplitDot(version_str, <<>>)
        first == SubSeq(parts, 1, IF Len(parts) < 3 THEN Len(parts) ELSE 3)
    IN  IF version_str = NonString THEN <<0, 0, 0>>
        ELSE IF \A i \in DOMAIN first : IsInt(first[i])
          THEN [i \in DOMAIN first |-> IntOf(first[i])]
          ELSE <<0, 0, 0>>

\* Python's order of tuples of integers.
RECURSIVE TupleLess(_, _)
TupleLess(x, y) ==
    IF y = <<>> THEN FALSE
    ELSE IF x = <<>> THEN TRUE
    ELSE IF Head(x) # Head(y) THEN Head(x) < Head(y)
    ELSE TupleLess(Tail(x), Tail(y))

\* A comparison that answers -1 whenever local is not after remote.
CompareNotAfter(local_version, remote_version) ==
    IF TupleLess(parse_version(remote_version), parse_version(local_version))
      THEN 1 ELSE -1

\* app_updater VersionManager.compare_versions
compare_versions(local_version, remote_version) ==
    LET local == parse_version(local_version)
        rem == parse_version(remote_version)
    IN  IF TupleLess(local, rem) THEN -1
        ELSE IF TupleLess(rem, local) THEN 1
        ELSE 0

\* An update test that reports every difference of the parsed versions.
AvailableWhenDifferent(app_id, local_version) ==
    /\ get_app_version_info(app_id).present
    /\ compare_versions(local_version, get_app_version_info(app_id).version) # 0

\* app_updater VersionManager.is_update_available
is_update_available(app_id, local_version) ==
    LET remote_info == get_app_version_info(app_id)
    IN  IF ~remote_info.present THEN FALSE
        ELSE compare_versions(local_version, remote_info.version) = -1

----------------------------------------------------------------------------
(* hub: app_updater.file_utils *)

\* calculate_sha256: "" for a missing file, else the hex digest.
calculate_sha256(f) == IF f.state = "absent" THEN <<>> ELSE f.digest

\* A verification that compares the digest with the expected string as written.
VerifyAsWritten(f, expected_sha256) == calculate_sha256(f) = expected_sha256

\* verify_file_integrity
verify_file_integrity(f, expected_sha256) == calculate_sha256(f) = Lower(expected_sha256)

----------------------------------------------------------------------------
(* hub: AppUpdater behind app_update_worker.UpdateWorker *)

\* A worker just constructed by AppHubWindow._start_update, with its dialog.
NewHubWorker(a, inLoop) ==
    [app |-> a, pc |-> "start", success |-> FALSE, applied |-> "none",
     fromVersion |-> cfgMem[a], outcome |-> "none", is_running |-> TRUE,
     dialog |-> IF inLoop THEN "loop" ELSE "exec", waited |-> FALSE,
     lastStatus |-> "idle"]

\* A modal UpdateProgressDialog is on screen.
DialogsOpen == \E r \in Live : r.dialog # "closed"

\* progress_dialog.exec() of the loop's last _start_update has not returned.
LoopBlocked == \E r \in Live : r.dialog = "loop"

\* The main window takes a click: the main thread is in its event loop, no
\* modal dialog is up and no handler is in the middle of its loop.
MainWindowIdle == ~waiting /\ ~DialogsOpen /\ startQueue = <<>>

\* AppHubWindow._start_update: UpdateWorker(updater, app_id) takes over the
\* updater's callbacks, update_workers[app_id] = worker, worker.start(),
\* progress_dialog.exec().
StartUpdate(a, inLoop) ==
    /\ started < MaxStarts
    /\ started' = started + 1
    /\ workers' = Add(workers, NewHubWorker(a, inLoop))
    /\ update_workers' = update_workers \cup {a}

\* AppHubWindow.on_update_clicked, the user answering Yes or No.
HubUpdateClicked(a) ==
    /\ MainWindowIdle
    /\ \/ /\ StartUpdate(a, FALSE)
          /\ UNCHANGED <<remote, cfgMem, cfgDisk, staged, installed, coreVars,
                         checkWorker, startQueue, waiting>>
       \/ UNCHANGED vars

\* An update_app that reports COMPLETED and returns True where the code reports
\* ERROR and returns False.
ReturnsTrue(r, why) ==
    [r EXCEPT !.pc = "emitted", !.success = TRUE, !.outcome = why,
              !.lastStatus = "completed"]

\* update_app returns False after _update_status(ERROR, ...); run() emits
\* finished(False, ...).
HubFail(r, why) ==
    [r EXCEPT !.pc = "emitted", !.success = FALSE, !.outcome = why, !.lastStatus = "error"]

\* UpdateWorker.run up to the download: the _is_running test, then update_app:
\* CHECKING, get_app_version_info, DOWNLOADING.
HubRunStart(r) ==
    LET a == r.app
    IN  /\ r.pc = "start"
        /\ IF ~r.is_running
             THEN /\ workers' = Replace(workers, r,
                                    [r EXCEPT !.pc = "emitted", !.outcome = "cancelled"])
             ELSE IF ~get_app_version_info(a).present
                    THEN /\ workers' = Replace(workers, r, HubFail(r, "noinfo"))
                    ELSE /\ workers' = Replace(workers, r,
                                  [r EXCEPT !.pc = "open", !.lastStatus = "downloading"])
        /\ UNCHANGED <<remote, cfgMem, cfgDisk, staged, installed, coreVars,
                       update_workers, checkWorker, startQueue, waiting, started>>

\* GoogleDriveClient.download_file_by_name up to open(dest_path, "wb"):
\* _find_file_id_by_name returns None (FileNotFoundError, re-raised as is), the
\* request fails (dest_path unlinked if it exists), or the file is created.
HubOpen(r) ==
    LET a == r.app
    IN  /\ r.pc = "open"
        /\ \/ /\ workers' = Replace(workers, r, HubFail(r, "download"))
              /\ UNCHANGED staged
           \/ /\ workers' = Replace(workers, r, HubFail(r, "download"))
              /\ staged' \in {[staged EXCEPT ![a] = f] : f \in UnlinkOutcomes(staged[a])}
           \/ /\ workers' = Replace(workers, r, [r EXCEPT !.pc = "stream"])
              /\ staged' = [staged EXCEPT ![a] = PartialFile]
        /\ UNCHANGED <<remote, cfgMem, cfgDisk, installed, coreVars,
                       update_workers, checkWorker, startQueue, waiting, started>>

\* GoogleDriveClient._download_file_by_id: the loop over iter_content.  The
\* transport fails (dest_path unlinked if it exists), or the stream ends and
\* update_app goes on to VERIFYING.
HubStream(r) ==
    LET a == r.app
    IN  /\ r.pc = "stream"
        /\ \/ /\ workers' = Replace(workers, r, HubFail(r, "download"))
              /\ staged' \in {[staged EXCEPT ![a] = f] : f \in UnlinkOutcomes(staged[a])}
           \/ \E d \in Digests :
                /\ workers' = Replace(workers, r,
                                  [r EXCEPT !.pc = "verify", !.lastStatus = "verifying"])
                /\ staged' = [staged EXCEPT ![a] = Closed(@, d)]
        /\ UNCHANGED <<remote, cfgMem, cfgDisk, installed, coreVars,
                       update_workers, checkWorker, startQueue, waiting, started>>

\* update_app, "Verify integrity": with a non-empty sha256 the digest of the
\* staged file is compared; reading the file may raise (caught by the outer
\* handler); on a mismatch remove_file(downloaded_path).
HubVerify(r) ==
    LET a == r.app
        f == staged[a]
        expected_sha256 == get_app_version_info(a).sha256
    IN  /\ r.pc = "verify"
        /\ \/ /\ expected_sha256 # <<>>
              /\ f.state # "absent"
              /\ workers' = Replace(workers, r, HubFail(r, "ioerror"))
              /\ UNCHANGED staged
           \/ /\ expected_sha256 # <<>>
              /\ ~verify_file_integrity(f, expected_sha256)
              /\ workers' = Replace(workers, r, HubFail(r, "integrity"))
              /\ staged' \in {[staged EXCEPT ![a] = g] : g \in UnlinkOutcomes(f)}
           \/ /\ expected_sha256 # <<>> => verify_file_integrity(f, expected_sha256)
              /\ workers' = Replace(workers, r, [r EXCEPT !.pc = "apply"])
              /\ UNCHANGED staged
        /\ UNCHANGED <<remote, cfgMem, cfgDisk, installed, coreVars,
                       update_workers, checkWorker, startQueue, waiting, started>>

\* AppUpdater._update_local_version: the entry's version in memory.
HubCommitMem(app_id) ==
    LET remote_info == get_app_version_info(app_id)
    IN  IF ~remote_info.present THEN cfgMem
        ELSE [cfgMem EXCEPT ![app_id] = remote_info.version]

\* What AppUpdater._update_local_version leaves in appconfig.json.
HubCommitDisk(app_id) == cfgDisk

\* update_app returns True after _update_status(COMPLETED, ...).
HubCompleted(r, how, f) ==
    [r EXCEPT !.pc = "emitted", !.success = TRUE, !.outcome = "completed",
              !.applied = how, !.lastStatus = "completed"]

\* _process_rar_update
\*   extract_rar raises (missing file, or no tool can extract): ERROR, remove_file;
\*   extracted: remove_file; if that raises: ERROR, remove_file again;
\*              else _update_local_version, COMPLETED.
ProcessRar(r) ==
    LET a == r.app
        f == staged[a]
    IN  \/ /\ workers' = Replace(workers, r, HubFail(r, "extract"))
           /\ staged' \in {[staged EXCEPT ![a] = g] : g \in UnlinkOutcomes(f)}
           /\ UNCHANGED <<cfgMem, cfgDisk, installed, commitLog>>
        \/ /\ f.state # "absent"
           /\ installed' = [installed EXCEPT ![a] = "new"]
           /\ \/ /\ staged' = [staged EXCEPT ![a] = Absent]
                 /\ cfgMem' = HubCommitMem(a)
                 /\ cfgDisk' = HubCommitDisk(a)
                 /\ commitLog' = commitLog \cup {a}
                 /\ workers' = Replace(workers, r, HubCompleted(r, "extracted", f))
              \/ /\ staged' \in {[staged EXCEPT ![a] = g] : g \in UnlinkOutcomes(f)}
                 /\ workers' = Replace(workers, r,
                                   [HubFail(r, "cleanup") EXCEPT !.applied = "extracted"])
                 /\ UNCHANGED <<cfgMem, cfgDisk, commitLog>>

\* _process_exe_update
\*   run_exe_installer raises (missing file, or Popen fails): ERROR, remove_file;
\*   spawned: COMPLETED.
ProcessExe(r) ==
    LET a == r.app
        f == staged[a]
    IN  \/ /\ workers' = Replace(workers, r, HubFail(r, "launch"))
           /\ staged' \in {[staged EXCEPT ![a] = g] : g \in UnlinkOutcomes(f)}
           /\ UNCHANGED <<cfgMem, cfgDisk, installed, commitLog>>
        \/ /\ f.state # "absent"
           /\ workers' = Replace(workers, r, HubCompleted(r, "launched", f))
           /\ UNCHANGED <<cfgMem, cfgDisk, staged, installed, commitLog>>

\* update_app, "Process based on file type", and run() emitting finished.
HubApply(r) ==
    LET a == r.app
        ft == LowerType(get_app_version_info(a).file_type)
    IN  /\ r.pc = "apply"
        /\ IF ft = "rar" THEN ProcessRar(r)
           ELSE IF ft = "exe" THEN ProcessExe(r)
           ELSE /\ workers' = Replace(workers, r, HubFail(r, "filetype"))
                /\ staged' \in {[staged EXCEPT ![a] = g] : g \in UnlinkOutcomes(staged[a])}
                /\ UNCHANGED <<cfgMem, cfgDisk, installed, commitLog>>
        /\ UNCHANGED <<remote, btnEnabled, update_workers, checkWorker, startQueue,
                       waiting, started, call>>

\* AppHubWindow._on_update_finished, queued to the main thread: the dialog is
\* closed, the message shown, the key deleted from update_workers.
HubOnUpdateFinished(r) ==
    /\ r.pc = "emitted"
    /\ ~waiting
    /\ workers' = Remove(workers, r)
    /\ update_workers' = update_workers \ {r.app}
    /\ UNCHANGED <<remote, cfgMem, cfgDisk, staged, installed, coreVars,
                   checkWorker, startQueue, waiting, started>>

\* The user closes an UpdateProgressDialog (QDialog.reject): the worker is
\* not told.
DialogReject(r) ==
    /\ r.dialog # "closed"
    /\ ~waiting
    /\ workers' = Replace(workers, r, [r EXCEPT !.dialog = "closed"])
    /\ UNCHANGED <<remote, cfgMem, cfgDisk, staged, installed, coreVars, hubVars>>

\* UpdateProgressDialog.on_cancel: UpdateWorker.cancel sets _is_running,
\* AppUpdater.cancel_update sets CANCELLED, and QThread.wait() holds the main
\* thread until run() has returned; then the dialog closes.
DialogCancel(r) ==
    LET c == [r EXCEPT !.is_running = FALSE, !.lastStatus = "cancelled"]
    IN  /\ r.dialog # "closed"
        /\ ~waiting
        /\ IF r.pc = "emitted"
             THEN /\ workers' = Replace(workers, r, [c EXCEPT !.dialog = "closed"])
                  /\ UNCHANGED waiting
             ELSE /\ workers' = Replace(workers, r, [c EXCEPT !.waited = TRUE])
                  /\ waiting' = TRUE
        /\ UNCHANGED <<remote, cfgMem, cfgDisk, staged, installed, coreVars,
                       update_workers, checkWorker, startQueue, started>>

\* QThread.wait() returns in UpdateWorker.cancel; on_cancel closes the dialog.
CancelReturn(r) ==
    /\ r.waited
    /\ r.pc = "emitted"
    /\ workers' = Replace(workers, r, [r EXCEPT !.waited = FALSE, !.dialog = "closed"])
    /\ waiting' = FALSE
    /\ UNCHANGED <<remote, cfgMem, cfgDisk, staged, installed, coreVars,
                   update_workers, checkWorker, startQueue, started>>

\* AppHubWindow.on_check_updates: a CheckUpdatesWorker is started.
HubCheckClicked ==
    /\ MainWindowIdle
    /\ checkWorker.state = "idle"
    /\ checkWorker' = [state |-> "running", updates |-> <<>>]
    /\ UNCHANGED <<remote, cfgMem, cfgDisk, staged, installed, workers, coreVars,
                   update_workers, startQueue, waiting, started>>

\* The ids, in the order of the local config, that check_updates reports
\* with has_update.
RECURSIVE WithUpdates(_)
WithUpdates(order) ==
    IF order = <<>> THEN <<>>
    ELSE IF is_update_available(Head(order), cfgMem[Head(order)])
           THEN <<Head(order)>> \o WithUpdates(Tail(order))
           ELSE WithUpdates(Tail(order))

\* CheckUpdatesWorker.run: AppUpdater.check_updates (CHECKING ... IDLE), then
\* finished(updates).
HubCheckRun ==
    /\ checkWorker.state = "running"
    /\ checkWorker' = [state |-> "emitted", updates |-> WithUpdates(AppOrder)]
    /\ UNCHANGED <<remote, cfgMem, cfgDisk, staged, installed, workers, coreVars,
                   update_workers, startQueue, waiting, started>>

\* AppHubWindow.on_check_updates_finished, queued to the main thread: nothing
\* to update, or the user answers No, or Yes and the loop calls _start_update
\* for the first id.
HubCheckFinished ==
    /\ checkWorker.state = "emitted"
    /\ ~waiting
    /\ checkWorker' = CheckIdle
    /\ \/ /\ UNCHANGED <<workers, update_workers, startQueue, started>>
       \/ /\ checkWorker.updates # <<>>
          /\ StartUpdate(Head(checkWorker.updates), TRUE)
          /\ startQueue' = Tail(checkWorker.updates)
    /\ UNCHANGED <<remote, cfgMem, cfgDisk, staged, installed, coreVars, waiting>>

\* The loop of on_check_updates_finished after progress_dialog.exec() returned:
\* _start_update for the next id.
HubLoopNext ==
    /\ startQueue # <<>>
    /\ ~waiting
    /\ ~LoopBlocked
    /\ StartUpdate(Head(startQueue), TRUE)
    /\ startQueue' = Tail(startQueue)
    /\ UNCHANGED <<remote, cfgMem, cfgDisk, staged, installed, coreVars,
                   checkWorker, waiting>>

NextHub ==
    \/ \E a \in Apps : HubUpdateClicked(a)
    \/ \E r \in Live : HubRunStart(r)
    \/ \E r \in Live : HubOpen(r)
    \/ \E r \in Live : HubStream(r)
    \/ \E r \in Live : HubVerify(r)
    \/ \E r \in Live : HubApply(r)
    \/ \E r \in Live : HubOnUpdateFinished(r)
    \/ \E r \in Live : DialogReject(r)
    \/ \E r \in Live : DialogCancel(r)
    \/ \E r \in Live : CancelReturn(r)
    \/ HubCheckClicked
    \/ HubCheckRun
    \/ HubCheckFinished
    \/ HubLoopNext

SpecHub == Init /\ [][NextHub]_vars

\* The hub started with a remote manifest that has no entry for app "a".
InitNoEntry == Init /\ ~remote["a"].present

\* The steps of the hub from there.  check_all_updates reports only ids with
\* a remote entry, so the queue of on_check_updates_finished never holds a
\* second id and the loop never starts a second update: HubLoopNext is not
\* enabled in any state and is left out.
NextNoEntry ==
    \/ \E a \in Apps : HubUpdateClicked(a)
    \/ \E r \in Live : HubRunStart(r)
    \/ \E r \in Live : HubOpen(r)
    \/ \E r \in Live : HubStream(r)
    \/ \E r \in Live : HubVerify(r)
    \/ \E r \in Live : HubApply(r)
    \/ \E r \in Live : HubOnUpdateFinished(r)
    \/ \E r \in Live : DialogReject(r)
    \/ \E r \in Live : DialogCancel(r)
    \/ \E r \in Live : CancelReturn(r)
    \/ HubCheckClicked
    \/ HubCheckRun
    \/ HubCheckFinished

SpecNoEntry == InitNoEntry /\ [][NextNoEntry]_vars

----------------------------------------------------------------------------
(* The version commit called on its own *)

\* The ids a commit is called with: the ids of the local manifest and one id
\* the local manifest does not hold.
Ids == Apps \cup {"x"}

Versions == {VLocal, VRemote}

\* What the commit raises. AppConfigManager.update_local_version ends its loop
\* without a match and dumps the document; AppUpdater._update_local_version
\* skips the assignment when get_app_by_id gives None. Neither raises.
CoreCommitRaised(app_id, new_version) == "none"

HubCommitRaised(app_id) == "none"

\* The record of a commit call: its arguments, what it raised and the two
\* copies of the manifest as they were before it.
CommitCall(op, app_id, new_version, raised) ==
    [op |-> op, id |-> app_id, version |-> new_version, raised |-> raised,
     memBefore |-> cfgMem, diskBefore |-> cfgDisk]

InitCommit ==
    /\ remote \in [Ids -> {NoEntry, [present |-> TRUE, version |-> VRemote,
                                     file_type |-> "rar", sha256 |-> ShaNone]}]
    /\ cfgMem \in [Apps -> Versions]
    /\ cfgDisk = cfgMem
    /\ staged = [a \in Apps |-> Absent]
    /\ installed = [a \in Apps |-> "old"]
    /\ workers = EmptyBag
    /\ btnEnabled = [a \in Apps |-> FALSE]
    /\ commitLog = {}
    /\ update_workers = {}
    /\ checkWorker = CheckIdle
    /\ startQueue = <<>>
    /\ waiting = FALSE
    /\ started = 0
    /\ call = NoCall

\* core: config_manager.update_local_version(app_id, new_version)
CallCoreCommit(app_id, new_version) ==
    /\ cfgMem' = CoreCommitMem(app_id, new_version)
    /\ cfgDisk' = CoreCommitDisk(app_id, new_version)
    /\ call' = CommitCall("core", app_id, new_version,
                          CoreCommitRaised(app_id, new_version))
    /\ UNCHANGED <<remote, staged, installed, workers, btnEnabled, commitLog,
                   update_workers, checkWorker, startQueue, waiting, started>>

\* hub: updater._update_local_version(app_id); the version is the remote one.
CallHubCommit(app_id) ==
    /\ cfgMem' = HubCommitMem(app_id)
    /\ cfgDisk' = HubCommitDisk(app_id)
    /\ call' = CommitCall("hub", app_id, get_app_version_info(app_id).version,
                          HubCommitRaised(app_id))
    /\ UNCHANGED <<remote, staged, installed, workers, btnEnabled, commitLog,
                   update_workers, checkWorker, startQueue, waiting, started>>

NextCommit ==
    \/ \E app_id \in Ids, new_version \in Versions :
            CallCoreCommit(app_id, new_version)
    \/ \E app_id \in Ids : CallHubCommit(app_id)

SpecCommit == InitCommit /\ [][NextCommit]_vars

----------------------------------------------------------------------------
(* core: the progress values of one UpdateWorker.run *)

\* The most chunks iter_content yields in one download, the most bytes in one
\* chunk, and the largest Content-Length of a response.
MaxChunks == 3
MaxChunkLen == 2
MaxTotal == 3

\* run() calls _download_with_progress(start=10, end=85).
DownloadStart == 10
DownloadEnd == 85

\* The value emitted after a chunk when Content-Length is known:
\* int(start + (end - start) * (downloaded / total)), the integer part of the
\* exact quotient.
ProgressValue(start, end, downloaded, total) ==
    start + ((end - start) * downloaded) \div total

\* The value emitted after a chunk when Content-Length is absent or zero:
\* int(start + (end - start) * 0.5).
ProgressUnknown(start, end) == (2 * start + (end - start)) \div 2

\* One run of the worker for an artifact of file type t, before its first
\* statement: nothing emitted.
NewRun(t) ==
    [op |-> "run", pc |-> "cleanup", file_type |-> LowerType(t), total |-> 0,
     downloaded |-> 0, chunks |-> 0, emitted |-> <<>>, finished |-> <<>>,
     status |-> <<>>]

InitProgress ==
    /\ remote = [a \in Apps |-> NoEntry]
    /\ cfgMem = [a \in Apps |-> VLocal]
    /\ cfgDisk = [a \in Apps |-> VLocal]
    /\ staged = [a \in Apps |-> Absent]
    /\ installed = [a \in Apps |-> "old"]
    /\ workers = EmptyBag
    /\ btnEnabled = [a \in Apps |-> FALSE]
    /\ commitLog = {}
    /\ update_workers = {}
    /\ checkWorker = CheckIdle
    /\ startQueue = <<>>
    /\ waiting = FALSE
    /\ started = 0
    /\ call \in {NewRun(t) : t \in FileTypes}

\* progress.emit(value)
Emit(value) == [call EXCEPT !.emitted = Append(@, value)]

\* status.emit(text): the texts of run() are "Cleaning up old files...",
\* "Deleting old app folder...", "Downloading ...", "Extracting files..." and
\* "Starting installer...".
StatusEmit(c, texts) == [c EXCEPT !.status = @ \o texts]

RunStep(c) ==
    /\ call' = c
    /\ UNCHANGED <<remote, cfgMem, cfgDisk, staged, installed, workers,
                   btnEnabled, commitLog, update_workers, checkWorker,
                   startQueue, waiting, started>>

\* run(): the status of the cleanup, progress.emit(5), the old files are
\* deleted (for a rar with the status of the folder), the status of the download.
RunCleanup ==
    /\ call.pc = "cleanup"
    /\ RunStep([StatusEmit(Emit(5),
                           IF call.file_type = "rar"
                             THEN <<"cleaning", "deleting", "downloading">>
                             ELSE <<"cleaning", "downloading">>)
                   EXCEPT !.pc = "request"])

\* _download_with_progress: the response arrives with its Content-Length
\* (0 when the header is missing or empty).
RunResponse(total) ==
    /\ call.pc = "request"
    /\ RunStep([call EXCEPT !.pc = "stream", !.total = total])

\* One non-empty chunk of n bytes is written and its progress value emitted.
RunChunk(n) ==
    /\ call.pc = "stream"
    /\ call.chunks < MaxChunks
    /\ LET downloaded == call.downloaded + n
           value == IF call.total # 0
                      THEN ProgressValue(DownloadStart, DownloadEnd, downloaded,
                                         call.total)
                      ELSE ProgressUnknown(DownloadStart, DownloadEnd)
       IN  RunStep([Emit(value) EXCEPT !.downloaded = downloaded,
                                       !.chunks = @ + 1])

\* The stream ends: progress.emit(end).
RunStreamEnd ==
    /\ call.pc = "stream"
    /\ RunStep([Emit(DownloadEnd) EXCEPT !.pc = "apply"])

\* Step 5 of run(): the status of the extraction or of the installer and
\* progress.emit(90) before extract_rar or run_exe; for any other file type
\* finished(..., False) at once.
RunApply ==
    /\ call.pc = "apply"
    /\ IF call.file_type \in {"rar", "exe"}
         THEN RunStep([StatusEmit(Emit(90),
                                  IF call.file_type = "rar" THEN <<"extracting">>
                                  ELSE <<"installing">>)
                          EXCEPT !.pc = "applying"])
         ELSE RunStep([call EXCEPT !.pc = "done", !.finished = Append(@, FALSE)])

\* extract_rar or run_exe has returned: progress.emit(100), finished(..., True).
RunApplied ==
    /\ call.pc = "applying"
    /\ RunStep([Emit(100) EXCEPT !.pc = "done", !.finished = Append(@, TRUE)])

\* Any statement of run() raises: the except clause emits finished(..., False).
RunRaise ==
    /\ call.op = "run"
    /\ call.pc # "done"
    /\ RunStep([call EXCEPT !.pc = "done", !.finished = Append(@, FALSE)])

NextProgress ==
    \/ RunCleanup
    \/ \E total \in 0..MaxTotal : RunResponse(total)
    \/ \E n \in 1..MaxChunkLen : RunChunk(n)
    \/ RunStreamEnd
    \/ RunApply
    \/ RunApplied
    \/ RunRaise

SpecProgress == InitProgress /\ [][NextProgress]_vars

----------------------------------------------------------------------------
(* hub: VersionManager.compare_versions called on its own *)

\* The most dot-separated parts of a version string given to the comparison.
MaxParts == 3

\* The parts a version string is made of: integers and a part int() rejects.
VersionParts == {<<"0">>, <<"1">>, <<"x">>}

\* ".".join(parts)
RECURSIVE JoinDot(_)
JoinDot(parts) ==
    IF Len(parts) = 1 THEN parts[1]
    ELSE parts[1] \o <<".">> \o JoinDot(Tail(parts))

VersionStrings ==
    {JoinDot(parts) : parts \in UNION {[1..n -> VersionParts] : n \in 1..MaxParts}}

\* The values the version arguments take: strings and a value that is none.
VersionInputs == VersionStrings \cup {NonString}

\* The same state with only the record of the last call changed.
Called(c) ==
    /\ call' = c
    /\ UNCHANGED <<remote, cfgMem, cfgDisk, staged, installed, workers,
                   btnEnabled, commitLog, update_workers, checkWorker,
                   startQueue, waiting, started>>

\* The window and its workers at rest, while a single function is called.
AtRest ==
    /\ cfgMem = [a \in Apps |-> VLocal]
    /\ cfgDisk = [a \in Apps |-> VLocal]
    /\ staged = [a \in Apps |-> Absent]
    /\ installed = [a \in Apps |-> "old"]
    /\ workers = EmptyBag
    /\ btnEnabled = [a \in Apps |-> FALSE]
    /\ commitLog = {}
    /\ update_workers = {}
    /\ checkWorker = CheckIdle
    /\ startQueue = <<>>
    /\ waiting = FALSE
    /\ started = 0

\* At rest, with a remote manifest that holds no entry.
Quiet == remote = [a \in Apps |-> NoEntry] /\ AtRest

\* Two version values are about to be compared.
InitCompare ==
    /\ Quiet
    /\ call \in [op : {"input"}, a : VersionInputs, b : VersionInputs]

\* compare_versions called on a and b, both ways round, and on a and itself.
\* Every exception of parse_version is caught in it, so each call returns.
CallCompare ==
    /\ call.op = "input"
    /\ Called([op |-> "compare_versions", a |-> call.a, b |-> call.b,
               aa |-> compare_versions(call.a, call.a),
               ab |-> compare_versions(call.a, call.b),
               ba |-> compare_versions(call.b, call.a),
               chain |-> FALSE, c |-> call.b, bc |-> 0, ac |-> 0])

\* After a call that answered -1 for (a, b): compare_versions called on
\* (b, c) and (a, c) for a third value c.
CallCompareThird(c) ==
    /\ call.op = "compare_versions"
    /\ ~call.chain
    /\ call.ab = -1
    /\ Called([call EXCEPT !.chain = TRUE, !.c = c,
                           !.bc = compare_versions(call.b, c),
                           !.ac = compare_versions(call.a, c)])

NextCompare ==
    \/ CallCompare
    \/ \E c \in VersionInputs : CallCompareThird(c)

SpecCompare == InitCompare /\ [][NextCompare]_vars

----------------------------------------------------------------------------
(* hub: VersionManager.is_update_available called on its own *)

\* The remote manifest holds any version, or nothing, for app "a" and nothing
\* for app "b"; the test is about to be called for an id and a local version.
InitAvailable ==
    /\ AtRest
    /\ remote \in {m \in [Apps -> {NoEntry} \cup
                                  [present : {TRUE}, version : VersionInputs,
                                   file_type : {"rar"}, sha256 : {ShaNone}]] :
                       m["b"] = NoEntry}
    /\ call \in [op : {"input"}, app_id : Apps, local_version : VersionInputs]

\* is_update_available(app_id, local_version), as AppUpdater.check_updates
\* calls it for has_update.
CallIsUpdateAvailable ==
    /\ call.op = "input"
    /\ Called([op |-> "is_update_available", app_id |-> call.app_id,
               local_version |-> call.local_version,
               result |-> is_update_available(call.app_id, call.local_version)])

NextAvailable == CallIsUpdateAvailable

SpecAvailable == InitAvailable /\ [][NextAvailable]_vars

----------------------------------------------------------------------------
(* core: VersionManager.is_update_needed called on its own *)

\* The version values of the two manifests: version strings as they are, with
\* a space before or after, the empty string, and None.
WrittenVersions ==
    VersionStrings
        \cup {<<" ">> \o v : v \in VersionStrings}
        \cup {v \o <<" ">> : v \in VersionStrings}
        \cup {<<>>, NonString}

InitNeeded ==
    /\ Quiet
    /\ call \in [op : {"input"}, local_version : WrittenVersions,
                 remote_version : WrittenVersions]

\* is_update_needed(local_version, remote_version), as _on_update_clicked
\* calls it.
CallIsUpdateNeeded ==
    /\ call.op = "input"
    /\ Called([op |-> "is_update_needed", local_version |-> call.local_version,
               remote_version |-> call.remote_version,
               result |-> is_update_needed(call.local_version,
                                           call.remote_version)])

NextNeeded == CallIsUpdateNeeded

SpecNeeded == InitNeeded /\ [][NextNeeded]_vars

----------------------------------------------------------------------------
(* hub: calculate_sha256 and verify_file_integrity called on their own *)

\* The length of a hex digest.
MaxHexLen == 2

\* The characters of the expected sha256 strings.
HexChars == {"a", "A", "b", "B", "c", "d", "0"}

\* The expected sha256 strings: empty, or hex in either case.
ExpectedStrings == UNION {[1..n -> HexChars] : n \in 0..MaxHexLen}

\* The files at the path handed over: none, one being written, a complete one.
FilesAtPath == {Absent, PartialFile} \cup {CompleteFile(d) : d \in Digests}

\* The outcomes of open(path, "rb") and f.read on an existing file: read, or
\* refused by the operating system (the exception is logged and re-raised).
ReadOutcomes(f) == IF f.state = "absent" THEN {"read"} ELSE {"read", "raised"}

InitVerify ==
    /\ Quiet
    /\ call \in [op : {"input"}, file : FilesAtPath, expected : ExpectedStrings]

\* calculate_sha256(filepath)
CallCalculate ==
    /\ call.op = "input"
    /\ \E o \in ReadOutcomes(call.file) :
          Called([op |-> "calculate_sha256", file |-> call.file,
                  expected |-> call.expected, raised |-> o = "raised",
                  result |-> IF o = "raised" THEN <<>>
                             ELSE calculate_sha256(call.file)])

\* verify_file_integrity(filepath, expected_sha256); an exception of
\* calculate_sha256 passes through it.
CallVerify ==
    /\ call.op = "input"
    /\ \E o \in ReadOutcomes(call.file) :
          Called([op |-> "verify_file_integrity", file |-> call.file,
                  expected |-> call.expected, raised |-> o = "raised",
                  result |-> IF o = "raised" THEN FALSE
                             ELSE verify_file_integrity(call.file,
                                                        call.expected)])

NextVerify ==
    \/ CallCalculate
    \/ CallVerify

SpecVerify == InitVerify /\ [][NextVerify]_vars

----------------------------------------------------------------------------
(* The file name of an artifact in the Drive folder *)

\* A key the entry does not hold.
NoField == <<"absent">>

\* The values of the 'filename' and 'file_name' keys of a remote entry.
FileNames == {NoField, <<"setup_v2.exe">>, <<"app-latest.rar">>}

\* The entries of app_version.json handed to the functions.
AppInfos ==
    [id : Apps, file_type : FileTypes, filename : FileNames,
     file_name : FileNames]

\* f"{app_id}.{file_type}"
IdDotType(app_id, file_type) == <<app_id, ".", file_type>>

\* core VersionManager.get_remote_filename
get_remote_filename(app_info) ==
    IF app_info.filename # NoField THEN app_info.filename
    ELSE IdDotType(app_info.id, LowerType(app_info.file_type))

\* update_test VersionManager.get_remote_filename
test_get_remote_filename(app_info) ==
    IF app_info.file_name # NoField THEN app_info.file_name
    ELSE IdDotType(app_info.id, LowerType(app_info.file_type))

\* AppUpdater.update_app and check_updates:
\* remote_info.get("filename", f"{app_id}.{remote_info.get('file_type')}")
update_app_filename(app_id, remote_info) ==
    IF remote_info.filename # NoField THEN remote_info.filename
    ELSE IdDotType(app_id, remote_info.file_type)

InitFilename ==
    /\ Quiet
    /\ call \in [op : {"input"}, app_info : AppInfos]

CallGetRemoteFilename ==
    /\ call.op = "input"
    /\ Called([op |-> "core.get_remote_filename", app_info |-> call.app_info,
               result |-> get_remote_filename(call.app_info)])

CallTestGetRemoteFilename ==
    /\ call.op = "input"
    /\ Called([op |-> "update_test.get_remote_filename",
               app_info |-> call.app_info,
               result |-> test_get_remote_filename(call.app_info)])

CallUpdateAppFilename ==
    /\ call.op = "input"
    /\ Called([op |-> "update_app.filename", app_info |-> call.app_info,
               result |-> update_app_filename(call.app_info.id, call.app_info)])

NextFilename ==
    \/ CallGetRemoteFilename
    \/ CallTestGetRemoteFilename
    \/ CallUpdateAppFilename

SpecFilename == InitFilename /\ [][NextFilename]_vars

----------------------------------------------------------------------------
(* The document of appconfig.json: json.load, update_local_version, json.dump.
   Here cfgDisk is the text of the file, a sequence of tokens, and cfgMem is
   AppConfigManager._config, the value json.load made of it. *)

MaxEntries == 2

\* JSON values as Python holds them: str, list, and dict in insertion order.
Str(s) == [t |-> "str", s |-> s, items |-> <<>>]

Arr(items) == [t |-> "arr", s |-> "", items |-> items]

Obj(items) == [t |-> "obj", s |-> "", items |-> items]

Item(key, val) == [key |-> key, val |-> val]

\* key in d
Has(d, key) == \E i \in DOMAIN d.items : d.items[i].key = key

\* d[key]
Get(d, key) ==
    d.items[CHOOSE i \in DOMAIN d.items : d.items[i].key = key].val

\* d[key] = val: an existing key keeps its place, a new key goes last.
Put(d, key, val) ==
    IF Has(d, key)
      THEN Obj([i \in DOMAIN d.items |->
                   IF d.items[i].key = key THEN Item(key, val) ELSE d.items[i]])
      ELSE Obj(Append(d.items, Item(key, val)))

\* The tokens of a JSON text: punctuation, string literals, white space.
P(c) == [k |-> "p", v |-> c]

S(s) == [k |-> "s", v |-> s]

W(s) == [k |-> "w", v |-> s]

\* The line break and indentation json.dump(indent=4) writes at a depth.
RECURSIVE Indent(_)
Indent(depth) ==
    IF depth = 0 THEN <<>> ELSE <<W("    ")>> \o Indent(depth - 1)

NewLine(depth) == <<W("\n")>> \o Indent(depth)

\* json.dump(value, f, indent=4) at a nesting depth.
RECURSIVE DumpAt(_, _)
RECURSIVE DumpItems(_, _, _)
DumpItems(v, i, depth) ==
    LET one == IF v.t = "arr" THEN DumpAt(v.items[i], depth)
               ELSE <<S(v.items[i].key), P(":"), W(" ")>>
                    \o DumpAt(v.items[i].val, depth)
    IN  IF i = Len(v.items) THEN one
        ELSE one \o <<P(",")>> \o NewLine(depth) \o DumpItems(v, i + 1, depth)

DumpAt(v, depth) ==
    LET open == IF v.t = "arr" THEN P("[") ELSE P("{")
        close == IF v.t = "arr" THEN P("]") ELSE P("}")
    IN  IF v.t = "str" THEN <<S(v.s)>>
        ELSE IF v.items = <<>> THEN <<open, close>>
        ELSE <<open>> \o NewLine(depth + 1) \o DumpItems(v, 1, depth + 1)
             \o NewLine(depth) \o <<close>>

\* A dump that keeps nothing but the list of apps.
DumpAppsOnly(doc) ==
    DumpAt(Obj(<<Item("apps", IF Has(doc, "apps") THEN Get(doc, "apps")
                              ELSE Arr(<<>>))>>), 0)

json_dump(doc) == DumpAt(doc, 0)

\* The same value written on one line, as an editor or another tool may.
RECURSIVE Compact(_)
RECURSIVE CompactItems(_, _)
CompactItems(v, i) ==
    LET one == IF v.t = "arr" THEN Compact(v.items[i])
               ELSE <<S(v.items[i].key), P(":")>> \o Compact(v.items[i].val)
    IN  IF i = Len(v.items) THEN one
        ELSE one \o <<P(",")>> \o CompactItems(v, i + 1)

Compact(v) ==
    IF v.t = "str" THEN <<S(v.s)>>
    ELSE IF v.t = "arr"
      THEN <<P("[")>> \o (IF v.items = <<>> THEN <<>> ELSE CompactItems(v, 1))
           \o <<P("]")>>
    ELSE <<P("{")>> \o (IF v.items = <<>> THEN <<>> ELSE CompactItems(v, 1))
         \o <<P("}")>>

\* json.load: white space is skipped; a value, the elements of a list and the
\* members of an object are read from position i of the tokens.
RECURSIVE ParseValue(_, _)
RECURSIVE ParseArr(_, _, _)
RECURSIVE ParseObj(_, _, _)
ParseValue(toks, i) ==
    IF toks[i].k = "s" THEN [val |-> Str(toks[i].v), next |-> i + 1]
    ELSE IF toks[i] = P("[")
      THEN IF toks[i + 1] = P("]") THEN [val |-> Arr(<<>>), next |-> i + 2]
           ELSE ParseArr(toks, i + 1, <<>>)
    ELSE IF toks[i + 1] = P("}") THEN [val |-> Obj(<<>>), next |-> i + 2]
         ELSE ParseObj(toks, i + 1, Obj(<<>>))

ParseArr(toks, i, acc) ==
    LET r == ParseValue(toks, i)
    IN  IF toks[r.next] = P(",")
          THEN ParseArr(toks, r.next + 1, Append(acc, r.val))
          ELSE [val |-> Arr(Append(acc, r.val)), next |-> r.next + 1]

ParseObj(toks, i, acc) ==
    LET r == ParseValue(toks, i + 2)
        d == Put(acc, toks[i].v, r.val)
    IN  IF toks[r.next] = P(",") THEN ParseObj(toks, r.next + 1, d)
        ELSE [val |-> d, next |-> r.next + 1]

json_load(text) ==
    ParseValue(SelectSeq(text, LAMBDA tok : tok.k # "w"), 1).val

\* self._config = {}
EmptyConfig == Obj(<<>>)

\* The file is not there.
NoFile == <<[k |-> "absent", v |-> ""]>>

DocVersions == {"1.0.0", "1.1.0"}

\* The entries of the "apps" list: with the version last, with the version
\* first, without a version, and without an id.
AppEntries ==
    UNION {
        {Obj(<<Item("id", Str(a)), Item("name", Str("App " \o a)),
               Item("local_path", Str("apps/" \o a)),
               Item("version", Str(v))>>),
         Obj(<<Item("version", Str(v)), Item("id", Str(a)),
               Item("name", Str("App " \o a))>>),
         Obj(<<Item("id", Str(a)), Item("name", Str("App " \o a))>>)}
        : a \in Apps, v \in DocVersions }
    \cup {Obj(<<Item("name", Str("draft"))>>)}

AppLists == UNION {[1..n -> AppEntries] : n \in 0..MaxEntries}

\* The documents: the apps alone, with another key before or after them, and
\* without the "apps" key.
Documents ==
    UNION {
        {Obj(<<Item("apps", Arr(l))>>),
         Obj(<<Item("theme", Str("dark")), Item("apps", Arr(l))>>),
         Obj(<<Item("apps", Arr(l)),
               Item("window", Obj(<<Item("width", Str("800"))>>))>>)}
        : l \in AppLists }
    \cup {Obj(<<Item("theme", Str("dark"))>>)}

\* self._config.get("apps", [])
AppsOf(config) ==
    IF Has(config, "apps") THEN Get(config, "apps").items ELSE <<>>

\* Where the loop of update_local_version ends: at the first entry that has
\* the id asked for, or that has no "id" at all; 0 when it runs to the end.
LoopEnd(config, app_id) ==
    LET apps == AppsOf(config)
        ends == {i \in DOMAIN apps :
                    \/ ~Has(apps[i], "id")
                    \/ Get(apps[i], "id") = Str(app_id)}
    IN  IF ends = {} THEN 0
        ELSE CHOOSE i \in ends : \A j \in ends : i <= j

\* app["id"] on an entry without the key.
UpdateRaises(config, app_id) ==
    LET i == LoopEnd(config, app_id)
    IN  i # 0 /\ ~Has(AppsOf(config)[i], "id")

\* self._config after the loop of update_local_version.
SetVersion(config, app_id, new_version) ==
    LET i == LoopEnd(config, app_id)
        apps == AppsOf(config)
    IN  IF i = 0 \/ UpdateRaises(config, app_id) THEN config
        ELSE Put(config, "apps",
                 Arr([apps EXCEPT ![i] = Put(@, "version", Str(new_version))]))

\* A call of the config manager: what was called and with what, what it
\* raised, and the value load() returned before the commit.
ConfigCall(op, after, previous, app_id, new_version, raised) ==
    [op |-> op, after |-> after, before |-> previous, id |-> app_id,
     version |-> new_version, raised |-> raised]

InitDocument ==
    /\ cfgDisk \in {json_dump(d) : d \in Documents}
                   \cup {Compact(d) : d \in Documents} \cup {NoFile}
    /\ cfgMem = EmptyConfig
    /\ remote = [a \in Apps |-> NoEntry]
    /\ staged = [a \in Apps |-> Absent]
    /\ installed = [a \in Apps |-> "old"]
    /\ workers = EmptyBag
    /\ btnEnabled = [a \in Apps |-> FALSE]
    /\ commitLog = {}
    /\ update_workers = {}
    /\ checkWorker = CheckIdle
    /\ startQueue = <<>>
    /\ waiting = FALSE
    /\ started = 0
    /\ call = NoCall

\* AppConfigManager.load, at the start of the window and after a commit.
CallLoad ==
    /\ call.op \in {"none", "update_local_version"}
    /\ cfgMem' = IF cfgDisk = NoFile THEN cfgMem ELSE json_load(cfgDisk)
    /\ call' = IF call.op = "none"
                 THEN ConfigCall("load", "start", cfgMem, "", "",
                                 cfgDisk = NoFile)
                 ELSE ConfigCall("load", "commit", call.before, call.id,
                                 call.version, cfgDisk = NoFile)
    /\ UNCHANGED <<remote, cfgDisk, staged, installed, workers, btnEnabled,
                   commitLog, update_workers, checkWorker, startQueue, waiting,
                   started>>

\* AppConfigManager.update_local_version(app_id, new_version), after the load
\* of the constructor of the window has returned.
CallUpdateLocalVersion(app_id, new_version) ==
    /\ call.op = "load" /\ call.after = "start" /\ ~call.raised
    /\ cfgMem' = SetVersion(cfgMem, app_id, new_version)
    /\ cfgDisk' = IF UpdateRaises(cfgMem, app_id) THEN cfgDisk
                  ELSE json_dump(cfgMem')
    /\ call' = ConfigCall("update_local_version", "start", cfgMem, app_id,
                          new_version, UpdateRaises(cfgMem, app_id))
    /\ UNCHANGED <<remote, staged, installed, workers, btnEnabled, commitLog,
                   update_workers, checkWorker, startQueue, waiting, started>>

NextDocument ==
    \/ CallLoad
    \/ \E app_id \in Ids, new_version \in DocVersions :
            CallUpdateLocalVersion(app_id, new_version)

SpecDocument == InitDocument /\ [][NextDocument]_vars

----------------------------------------------------------------------------
(* Fetching the remote manifest while get_app_version_info reads it.
   Here remote is the state of the VersionManager: versions_data and
   apps_versions of app_updater, _versions of core. *)

MaxManifest == 2

\* The entries of app_version.json.
ManifestEntries == [id : Apps, version : DocVersions]

\* get_app_version_info returns None.
NoInfo == [id |-> "", version |-> ""]

ManifestLists == UNION {[1..n -> ManifestEntries] : n \in 0..MaxManifest}

\* A JSON object with an "apps" list, a JSON object without one, and a JSON
\* text that is not an object.
DictWithApps(apps) == [kind |-> "dict", hasApps |-> TRUE, apps |-> apps]

DictWithoutApps == [kind |-> "dict", hasApps |-> FALSE, apps |-> <<>>]

NotADict == [kind |-> "list", hasApps |-> FALSE, apps |-> <<>>]

ManifestDicts == {DictWithApps(l) : l \in ManifestLists} \cup {DictWithoutApps}

ManifestDocs == ManifestDicts \cup {NotADict}

\* What the download and json.load of a fetch come to.
FetchOutcomes ==
    [fails : {"network", "decode"}, data : {DictWithoutApps}]
    \cup [fails : {"none"}, data : ManifestDocs]

\* data.get("apps", [])
AppsOrEmpty(data) == IF data.hasApps THEN data.apps ELSE <<>>

\* The manager after an earlier fetch of a document.
Fetched(data) ==
    [versions_data |-> data, apps_versions |-> AppsOrEmpty(data),
     versions |-> data]

\* A fetch that adds the new entries to the list it has.
AppendApps(manager, data) ==
    [manager EXCEPT !.apps_versions = @ \o AppsOrEmpty(data)]

\* self.versions_data = self.drive_client.download_app_version_json(filename)
AssignData(manager, data) == [manager EXCEPT !.versions_data = data]

\* self.apps_versions = self.versions_data.get("apps", [])
AssignApps(manager, data) ==
    [manager EXCEPT !.apps_versions = AppsOrEmpty(data)]

\* core: self._versions = json.load(f)
AssignVersions(manager, data) == [manager EXCEPT !.versions = data]

\* A fetch has been called, and a reader is about to ask for an id.
InitFetch ==
    /\ remote \in {Fetched(d) : d \in ManifestDicts}
    /\ call \in [op : {"fetch"}, impl : {"hub", "core"}, old : {remote},
                 outcome : FetchOutcomes, fpc : {"start"}, id : Apps,
                 rpc : {"idle"}, began : {"idle"}, list : {<<>>}, i : {0},
                 result : {NoInfo}]
    /\ cfgMem = [a \in Apps |-> VLocal]
    /\ cfgDisk = [a \in Apps |-> VLocal]
    /\ staged = [a \in Apps |-> Absent]
    /\ installed = [a \in Apps |-> "old"]
    /\ workers = EmptyBag
    /\ btnEnabled = [a \in Apps |-> FALSE]
    /\ commitLog = {}
    /\ update_workers = {}
    /\ checkWorker = CheckIdle
    /\ startQueue = <<>>
    /\ waiting = FALSE
    /\ started = 0

\* A step of the fetch or of the reader.
FetchStep(manager, c) ==
    /\ remote' = manager
    /\ call' = c
    /\ UNCHANGED <<cfgMem, cfgDisk, staged, installed, workers, btnEnabled,
                   commitLog, update_workers, checkWorker, startQueue, waiting,
                   started>>

\* The download or json.load raises: nothing has been assigned.
FetchFails ==
    /\ call.op = "fetch" /\ call.fpc = "start"
    /\ call.outcome.fails # "none"
    /\ FetchStep(remote, [call EXCEPT !.fpc = "raised"])

\* app_updater fetch_versions, the first assignment.
HubAssignData ==
    /\ call.op = "fetch" /\ call.impl = "hub" /\ call.fpc = "start"
    /\ call.outcome.fails = "none"
    /\ FetchStep(AssignData(remote, call.outcome.data),
                 [call EXCEPT !.fpc = "data"])

\* app_updater fetch_versions, the second assignment; .get raises on a
\* document that is not an object.
HubAssignApps ==
    /\ call.op = "fetch" /\ call.impl = "hub" /\ call.fpc = "data"
    /\ IF remote.versions_data.kind # "dict"
         THEN FetchStep(remote, [call EXCEPT !.fpc = "raised"])
         ELSE FetchStep(AssignApps(remote, remote.versions_data),
                        [call EXCEPT !.fpc = "done"])

\* core fetch_versions: the one assignment.
CoreAssignVersions ==
    /\ call.op = "fetch" /\ call.impl = "core" /\ call.fpc = "start"
    /\ call.outcome.fails = "none"
    /\ FetchStep(AssignVersions(remote, call.outcome.data),
                 [call EXCEPT !.fpc = "done"])

\* get_app_version_info takes the list it will go through.
ReadBegin ==
    /\ call.op = "fetch" /\ call.rpc = "idle"
    /\ IF call.impl = "hub"
         THEN FetchStep(remote, [call EXCEPT !.rpc = "scan", !.i = 1,
                                             !.began = call.fpc,
                                             !.list = remote.apps_versions])
         ELSE IF remote.versions.kind # "dict"
           THEN FetchStep(remote, [call EXCEPT !.rpc = "raised",
                                               !.began = call.fpc])
           ELSE FetchStep(remote,
                          [call EXCEPT !.rpc = "scan", !.i = 1,
                                       !.began = call.fpc,
                                       !.list = AppsOrEmpty(remote.versions)])

\* get_app_version_info looks at the next entry of its list.
ReadNext ==
    /\ call.op = "fetch" /\ call.rpc = "scan"
    /\ IF call.i > Len(call.list)
         THEN FetchStep(remote, [call EXCEPT !.rpc = "returned",
                                             !.result = NoInfo])
         ELSE IF call.list[call.i].id = call.id
           THEN FetchStep(remote, [call EXCEPT !.rpc = "returned",
                                               !.result = call.list[call.i]])
           ELSE FetchStep(remote, [call EXCEPT !.i = @ + 1])

NextFetch ==
    \/ FetchFails
    \/ HubAssignData
    \/ HubAssignApps
    \/ CoreAssignVersions
    \/ ReadBegin
    \/ ReadNext

SpecFetch == InitFetch /\ [][NextFetch]_vars

----------------------------------------------------------------------------
(* core: AppLoader.launch_app called on its own *)

\* The patterns of an entry of appconfig.json, as sequences of path parts, and
\* the empty pattern.
InstalledPattern == <<"%LOCALAPPDATA%", "App", "app.exe">>

LocalPattern == <<"App_v*", "app.exe">>

EmptyPattern == <<>>

\* os.path.expandvars
ExpandVars(pattern) ==
    [i \in DOMAIN pattern |->
        IF pattern[i] = "%LOCALAPPDATA%" THEN "C:/Users/u/AppData/Local"
        ELSE pattern[i]]

\* os.path.join(apps_dir, local_path_pattern)
JoinApps(pattern) == <<"nova_hub", "apps">> \o pattern

\* The files glob.glob finds for the two patterns: none, one or two.
InstalledFiles ==
    {<<>>, <<"C:/Users/u/AppData/Local/App/app.exe">>,
     <<"C:/Users/u/AppData/Local/App/app.exe",
       "C:/Users/u/AppData/Local/App/old/app.exe">>}

LocalFiles ==
    {<<>>, <<"nova_hub/apps/App_v1/app.exe">>,
     <<"nova_hub/apps/App_v1/app.exe", "nova_hub/apps/App_v2/app.exe">>}

\* No executable: None.
NoPath == "None"

\* glob.glob(expanded_path, recursive=True) on a disk where the installed and
\* the local pattern find the given files.
Glob(files, expanded_path) ==
    IF expanded_path = ExpandVars(InstalledPattern) THEN files.installed
    ELSE IF expanded_path = ExpandVars(JoinApps(LocalPattern)) THEN files.local
    ELSE <<>>

\* AppLoader._find_executable_path
find_executable_path(files, path_pattern) ==
    IF path_pattern = EmptyPattern THEN NoPath
    ELSE LET found_files == Glob(files, ExpandVars(path_pattern))
         IN  IF found_files # <<>> THEN found_files[1] ELSE NoPath

\* AppLoader.launch_app: the path handed to run_exe, or None.
launch_app(files, app_config) ==
    LET exe_path ==
            IF app_config.installed_exe # NoField
              THEN find_executable_path(files, app_config.installed_exe)
              ELSE NoPath
    IN  IF exe_path = NoPath
           /\ app_config.local_path \notin {NoField, EmptyPattern}
          THEN find_executable_path(files, JoinApps(app_config.local_path))
          ELSE exe_path

InitLaunch ==
    /\ Quiet
    /\ call \in [op : {"input"},
                 app_config : [installed_exe : {NoField, EmptyPattern,
                                                InstalledPattern},
                               local_path : {NoField, EmptyPattern, LocalPattern}],
                 files : [installed : InstalledFiles, local : LocalFiles]]

CallLaunchApp ==
    /\ call.op = "input"
    /\ Called([op |-> "launch_app", app_config |-> call.app_config,
               files |-> call.files,
               launched |-> launch_app(call.files, call.app_config)])

NextLaunch == CallLaunchApp

SpecLaunch == InitLaunch /\ [][NextLaunch]_vars

----------------------------------------------------------------------------
(* hub: the status events of update_app, with two workers on one AppUpdater.
   Here call holds the AppUpdater (status_callback, current_status) and, for
   each app, its UpdateWorker and the invocation of update_app it runs. *)

\* An UpdateWorker not yet constructed: no status sent by its update_app, no
\* status received on its signals, nothing returned.
NoWorkerYet ==
    [made |-> FALSE, pc |-> "idle", sent |-> <<>>, got |-> {}, own |-> 0,
     ret |-> "none"]

\* AppUpdater.__init__: current_status = IDLE, status_callback = None.
InitEvents ==
    /\ AtRest
    /\ remote \in RemoteManifests
    /\ call = [op |-> "events", owner |-> "none", current_status |-> "idle",
               checked |-> FALSE, w |-> [a \in Apps |-> NoWorkerYet]]

\* AppUpdater._update_status called by update_app(a): current_status is set
\* and status_callback, the slot of the worker constructed last, is called.
update_status(c, a, status) ==
    LET o == c.owner
        sent == [c EXCEPT !.current_status = status,
                          !.w[a].sent = Append(@, status)]
    IN  [sent EXCEPT !.w[o].got = @ \cup {a},
                     !.w[o].own = IF o = a THEN @ + 1 ELSE @]

\* update_app(a) returns.
Returns(c, a, value) == [c EXCEPT !.w[a].pc = "done", !.w[a].ret = value]

\* UpdateWorker.__init__(updater, a): set_status_callback, set_progress_callback.
WorkerInit(a) ==
    /\ call.op = "events"
    /\ ~call.w[a].made
    /\ Called([call EXCEPT !.owner = a, !.w[a].made = TRUE, !.w[a].pc = "start"])

\* update_app: CHECKING, then ERROR without a remote entry, else DOWNLOADING.
UpdateAppStart(a) ==
    /\ call.op = "events"
    /\ call.w[a].pc = "start"
    /\ LET c == update_status(call, a, "checking")
       IN  IF ~get_app_version_info(a).present
             THEN Called(Returns(update_status(c, a, "error"), a, FALSE))
             ELSE Called([update_status(c, a, "downloading")
                             EXCEPT !.w[a].pc = "download"])

\* update_app: the download raises (ERROR), or returns (VERIFYING).
UpdateAppDownload(a) ==
    /\ call.op = "events"
    /\ call.w[a].pc = "download"
    /\ \/ Called(Returns(update_status(call, a, "error"), a, FALSE))
       \/ Called([update_status(call, a, "verifying") EXCEPT !.w[a].pc = "verify"])

\* The handler of update_app for an exception that reaches it: ERROR, False.
OuterHandler(c, a) == Returns(update_status(c, a, "error"), a, FALSE)

\* update_app, "Verify integrity", for a non-empty sha256: reading the file
\* raises; or the digest differs: ERROR and remove_file, which returns or
\* raises; or the digest matches.  Without a sha256 nothing is verified.
UpdateAppVerify(a) ==
    /\ call.op = "events"
    /\ call.w[a].pc = "verify"
    /\ \/ /\ get_app_version_info(a).sha256 # <<>>
          /\ Called(OuterHandler(call, a))
       \/ /\ get_app_version_info(a).sha256 # <<>>
          /\ Called(Returns(update_status(call, a, "error"), a, FALSE))
       \/ /\ get_app_version_info(a).sha256 # <<>>
          /\ Called(OuterHandler(update_status(call, a, "error"), a))
       \/ Called([call EXCEPT !.w[a].pc = "process"])

\* _process_rar_update: EXTRACTING; extract_rar raises, or extract_rar returns
\* and remove_file raises: ERROR, then remove_file returns (False) or raises
\* into the handler of update_app; or all return: COMPLETED, True.
process_rar_update(c0, a) ==
    LET c == update_status(c0, a, "extracting")
    IN  \/ Called(Returns(update_status(c, a, "error"), a, FALSE))
        \/ Called(OuterHandler(update_status(c, a, "error"), a))
        \/ Called(Returns(update_status(c, a, "completed"), a, TRUE))

\* _process_exe_update: INSTALLING; run_exe_installer raises: ERROR, then
\* remove_file returns (False) or raises; or the installer is spawned:
\* COMPLETED, True.
process_exe_update(c0, a) ==
    LET c == update_status(c0, a, "installing")
    IN  \/ Called(Returns(update_status(c, a, "error"), a, FALSE))
        \/ Called(OuterHandler(update_status(c, a, "error"), a))
        \/ Called(Returns(update_status(c, a, "completed"), a, TRUE))

\* update_app, "Process based on file type"; for any other type ERROR, then
\* remove_file returns (False) or raises.
UpdateAppProcess(a) ==
    LET ft == LowerType(get_app_version_info(a).file_type)
    IN  /\ call.op = "events"
        /\ call.w[a].pc = "process"
        /\ IF ft = "rar" THEN process_rar_update(call, a)
           ELSE IF ft = "exe" THEN process_exe_update(call, a)
           ELSE \/ Called(Returns(update_status(call, a, "error"), a, FALSE))
                \/ Called(OuterHandler(update_status(call, a, "error"), a))

\* AppUpdater.check_updates: CHECKING, the comparison of the versions, IDLE;
\* both go to status_callback when a worker has set one.
CheckUpdates ==
    /\ call.op = "events"
    /\ ~call.checked
    /\ LET idle == [call EXCEPT !.current_status = "idle", !.checked = TRUE]
       IN  IF call.owner = "none" THEN Called(idle)
           ELSE Called([idle EXCEPT !.w[call.owner].got = @ \cup {"check_updates"}])

NextEvents ==
    \/ \E a \in Apps : WorkerInit(a)
    \/ \E a \in Apps : UpdateAppStart(a)
    \/ \E a \in Apps : UpdateAppDownload(a)
    \/ \E a \in Apps : UpdateAppVerify(a)
    \/ \E a \in Apps : UpdateAppProcess(a)
    \/ CheckUpdates

SpecEvents == InitEvents /\ [][NextEvents]_vars

----------------------------------------------------------------------------
(* core: step 3 of UpdateWorker.run, the old app folder, called on its own *)

\* The directories of the two apps under apps/, as sequences of characters.
DirOfA == <<"A", "1">>

DirOfB == <<"B", "1">>

AppDirs == {DirOfA, DirOfB}

\* What a name under apps/ is: a directory, a file, or nothing.
DirStates == {"dir", "file", "absent"}

\* The local_path of the entry of app "a": no key, the empty string, an
\* executable directly under apps/, and executables in a folder given by name
\* or by a pattern.
NoLocalPath == <<NoField>>

LocalPaths ==
    {NoLocalPath, EmptyPattern, <<<<"a", ".", "e">>>>}
    \cup {<<d, <<"a", ".", "e">>>> :
            d \in {DirOfA, <<"A", "*">>, <<"*", "1">>, <<"*">>}}

\* fnmatch of a name against a pattern in which "*" stands for any characters.
RECURSIVE Match(_, _)
Match(pattern, name) ==
    IF pattern = <<>> THEN name = <<>>
    ELSE IF Head(pattern) = "*"
      THEN Match(Tail(pattern), name)
           \/ (name # <<>> /\ Match(pattern, Tail(name)))
    ELSE name # <<>> /\ Head(name) = Head(pattern)
         /\ Match(Tail(pattern), Tail(name))

\* str(Path(local_path_pattern).parent): the parts but the last; "." is the
\* empty sequence here.
Parent(local_path_pattern) ==
    SubSeq(local_path_pattern, 1, Len(local_path_pattern) - 1)

\* delete_dir_if_exists(apps_dir / dir_pattern): every name glob finds that
\* is a directory is removed, or left when rmtree fails; what is no directory
\* is skipped.
delete_dir_if_exists(dirs, dir_pattern) ==
    {after \in [AppDirs -> DirStates] :
        \A n \in AppDirs :
            IF Match(dir_pattern, n) /\ dirs[n] = "dir"
              THEN after[n] \in {"absent", "dir"}
              ELSE after[n] = dirs[n]}

\* Step 3 of run(): for a rar update with a local_path whose parent is not
\* ".", the folders matching the parent are deleted.
DeleteOldAppFolder(dirs, file_type, local_path_pattern) ==
    IF /\ LowerType(file_type) = "rar"
       /\ local_path_pattern \notin {NoLocalPath, EmptyPattern}
       /\ Parent(local_path_pattern) # <<>>
      THEN delete_dir_if_exists(dirs, Parent(local_path_pattern)[1])
      ELSE {dirs}

InitFolders ==
    /\ Quiet
    /\ call \in [op : {"input"}, file_type : FileTypes, local_path : LocalPaths,
                 dirs : [AppDirs -> DirStates]]

\* The worker of app "a" runs its step 3.
CallDeleteOldAppFolder ==
    /\ call.op = "input"
    /\ \E after \in DeleteOldAppFolder(call.dirs, call.file_type, call.local_path) :
          Called([op |-> "delete_old_app_folder", file_type |-> call.file_type,
                  local_path |-> call.local_path, dirs |-> call.dirs,
                  after |-> after])

NextFolders == CallDeleteOldAppFolder

SpecFolders == InitFolders /\ [][NextFolders]_vars

----------------------------------------------------------------------------
(* core: the remote manifest fetched again while sessions are in flight *)

\* The version a later app_version.json carries.
VNewer == <<"1", ".", "2", ".", "0">>

\* The manifests a second fetch can bring: the entries of some apps carry the
\* later version.
Refetched ==
    {[a \in Apps |-> IF a \in changed /\ remote[a].present
                       THEN [remote[a] EXCEPT !.version = VNewer]
                       ELSE remote[a]] : changed \in SUBSET Apps}

\* VersionManager.fetch_versions called on the manager the window and its
\* workers share: the snapshot is replaced.
FetchVersions ==
    /\ \A a \in Apps : remote[a].version # VNewer
    /\ remote' \in Refetched \ {remote}
    /\ UNCHANGED <<cfgMem, cfgDisk, staged, installed, workers, btnEnabled,
                   commitLog, hubVars>>

NextRefetch ==
    \/ \E a \in Apps : OnUpdateClicked(a)
    \/ \E r \in Live : CoreCleanup(r)
    \/ \E r \in Live : CoreOpen(r)
    \/ \E r \in Live : CoreStream(r)
    \/ \E r \in Live : CoreApply(r)
    \/ \E r \in Live : OnWorkerFinished(r)
    \/ \E r \in Live : ThreadFinished(r)
    \/ FetchVersions

SpecRefetch == Init /\ [][NextRefetch]_vars

----------------------------------------------------------------------------
(* core: one session followed from its start to the end of its thread *)

\* MainWindow._on_update_clicked starting a session that is followed: the
\* same steps as OnUpdateClicked, the worker marked, one marked worker at a
\* time.
OnTrackedClicked(a) ==
    /\ btnEnabled[a]
    /\ get_app_version_info(a).present
    /\ is_update_needed(cfgMem[a], get_app_version_info(a).version)
    /\ ~\E r \in Live : r.tracked
    /\ BagCardinality(workers) < MaxWorkers
    /\ btnEnabled' = [btnEnabled EXCEPT ![a] = FALSE]
    /\ workers' = Add(workers, [NewWorker(a, "cleanup") EXCEPT !.tracked = TRUE])
    /\ UNCHANGED <<remote, cfgMem, cfgDisk, staged, installed, commitLog, hubVars>>

NextTracked ==
    \/ \E a \in Apps : OnUpdateClicked(a)
    \/ \E a \in Apps : OnTrackedClicked(a)
    \/ \E r \in Live : CoreCleanup(r)
    \/ \E r \in Live : CoreOpen(r)
    \/ \E r \in Live : CoreStream(r)
    \/ \E r \in Live : CoreApply(r)
    \/ \E r \in Live : OnWorkerFinished(r)
    \/ \E r \in Live : ThreadFinished(r)

\* Every I/O step of a worker returns or fails, every thread is scheduled and
\* the event loop of the main thread delivers every queued signal: a step of
\* a worker that stays possible is taken.  Clicks of the user are not required.
WorkerFairness ==
    \A a \in Apps : \A t \in BOOLEAN :
        /\ WF_vars(\E r \in Live : r.app = a /\ r.tracked = t /\ CoreCleanup(r))
        /\ WF_vars(\E r \in Live : r.app = a /\ r.tracked = t /\ CoreOpen(r))
        /\ WF_vars(\E r \in Live : r.app = a /\ r.tracked = t /\ CoreStream(r))
        /\ WF_vars(\E r \in Live : r.app = a /\ r.tracked = t /\ CoreApply(r))
        /\ WF_vars(\E r \in Live : r.app = a /\ r.tracked = t /\ OnWorkerFinished(r))
        /\ WF_vars(\E r \in Live : r.app = a /\ r.tracked = t /\ ThreadFinished(r))

SpecTracked == Init /\ [][NextTracked]_vars /\ WorkerFairness

----------------------------------------------------------------------------
(* Properties *)

\* The worker record r is taken by the step: it is handled, replaced or removed.
Taken(r) == CopiesIn(r, workers') < CopiesIn(r, workers)

\* The step turns the worker record r into r2.
Becomes(r, r2) ==
    /\ Taken(r)
    /\ r2.app = r.app
    /\ CopiesIn(r2, workers') > CopiesIn(r2, workers)

\* C1: at no time are two update sessions in flight for the same app id.
C1_OneSessionPerApp == \A a \in Apps : SessionsOf(a) <= 1

\* C2: when the remote entry carries a non-empty sha256, an artifact is
\* extracted or launched only if the digest of the staged file equals the
\* expected checksum, compared case-insensitively.
C2_IntegrityGate ==
    \A r \in Live :
        (r.applied \in {"extracted", "launched"} /\ remote[r.app].sha256 # <<>>)
            => r.appliedDigest = Lower(remote[r.app].sha256)

\* C3: when a session fails integrity verification it ends Failed, and then
\* the staged file does not exist and the app's version is the one the
\* session started from.
C3_IntegrityFailureLeavesNothing ==
    [][\A r \in Live : \A r2 \in BagToSet(workers') :
          (Becomes(r, r2) /\ r.pc = "verify" /\ r2.pc = "emitted"
              /\ r2.outcome = "integrity")
              => /\ ~r2.success
                 /\ r2.lastStatus = "error"
                 /\ staged'[r.app].state = "absent"
                 /\ cfgMem'[r.app] = r.fromVersion]_vars

\* C4: a step changes the stored version of an app only when it handles a
\* session of that app whose archive was extracted or whose installer was
\* spawned.
C4_CommitOnlyAfterApply ==
    [][\A a \in Apps :
          (cfgMem'[a] # cfgMem[a] \/ cfgDisk'[a] # cfgDisk[a])
              => \E r \in Live : /\ r.app = a
                                 /\ r.pc = "emitted"
                                 /\ Taken(r)
                                 /\ r.applied \in {"extracted", "launched"}]_vars

\* C5: a session cancelled while in flight keeps the CANCELLED status, applies
\* no artifact, does not end in success and leaves the app's version as it was.
C5_CancelledStaysCancelled ==
    \A r \in Live :
        r.waited => /\ r.lastStatus = "cancelled"
                    /\ r.applied = "none"
                    /\ ~r.success
                    /\ cfgMem[r.app] = r.fromVersion

\* C6: after an archive session Completed, the app's version equals the remote
\* entry's version in memory and in the on-disk document.
C6_ArchiveCompletedCommits ==
    \A r \in Live :
        (r.pc = "emitted" /\ r.outcome = "completed"
            /\ LowerType(remote[r.app].file_type) = "rar")
            => /\ cfgMem[r.app] = remote[r.app].version
               /\ cfgDisk[r.app] = remote[r.app].version

\* C7: after an installer session with a matching checksum Completed, the
\* local manifest reports the remote version of the app.
C7_InstallerCompletedCommits ==
    \A r \in Live :
        (r.pc = "emitted" /\ r.outcome = "completed"
            /\ LowerType(remote[r.app].file_type) = "exe"
            /\ remote[r.app].sha256 # <<>>)
            => cfgMem[r.app] = remote[r.app].version

\* C8: when a session's download fails it ends Failed, and then no file of
\* that name is left in the staging directory and the app's version is the one
\* the session started from.
C8_DownloadFailureLeavesNothing ==
    [][\A r \in Live : \A r2 \in BagToSet(workers') :
          (Becomes(r, r2) /\ r.pc \in {"open", "stream"} /\ r2.pc = "emitted"
              /\ r2.outcome = "download")
              => /\ ~r2.success
                 /\ staged'[r.app].state = "absent"
                 /\ cfgMem'[r.app] = r.fromVersion]_vars

C10_CommitDurable == \A a \in Apps : cfgDisk[a] = cfgMem[a]

\* C11: a commit called with an id the local manifest does not hold raises a
\* not-found error and leaves the in-memory manifest and the file as they were.
C11_UnknownIdNotFound ==
    (call.op \in {"core", "hub"} /\ call.id \notin DOMAIN call.memBefore) =>
        /\ call.raised = "NotFound"
        /\ cfgMem = call.memBefore
        /\ cfgDisk = call.diskBefore

\* C12: once a session has emitted finished it emits nothing more: no step
\* changes the status it last published or its terminal result, and finished
\* is not emitted a second time.
C12_FinishedIsLast ==
    [][\A r \in Live : \A r2 \in BagToSet(workers') :
          (Becomes(r, r2) /\ r.pc = "emitted")
              => /\ r2.pc = "emitted"
                 /\ r2.success = r.success
                 /\ r2.outcome = r.outcome
                 /\ r2.lastStatus = r.lastStatus]_vars

\* C13: the progress values one run emits are non-decreasing and each lies in
\* 0..100, whatever chunks arrive and whatever total size was reported.
C13_ProgressMonotone ==
    call.op = "run" =>
        \A i \in 1..Len(call.emitted) :
            /\ call.emitted[i] \in 0..100
            /\ i > 1 => call.emitted[i - 1] <= call.emitted[i]

\* C14: whatever step of a session failed (the download, the extraction, the
\* archive missing at extraction, the spawn of the installer, an unknown file
\* type), the session ends with finished emitted and success false.
C14_FailureEndsFailed ==
    \A r \in Live :
        (/\ r.pc \in {"emitted", "handled"}
         /\ \/ r.outcome \in {"download", "extract", "filetype", "integrity",
                              "ioerror", "noinfo", "cleanup", "launch"}
            \/ r.applied \in {"nofile", "nospawn"})
            => ~r.success

\* C15: when the apply step of an archive session ends the session, the staged
\* archive is gone, whether the extraction succeeded or failed; and a failed
\* extraction ends the session with success false and the version unchanged.
C15_ArchiveStagedFileRemoved ==
    [][\A r \in Live : \A r2 \in BagToSet(workers') :
          (/\ Becomes(r, r2)
           /\ r.pc = "apply"
           /\ r2.pc = "emitted"
           /\ LowerType(remote[r.app].file_type) = "rar")
              => /\ staged'[r.app].state = "absent"
                 /\ r2.outcome = "extract"
                        => (~r2.success /\ cfgMem'[r.app] = cfgMem[r.app])]_vars

\* C16: a session whose installer process could not be spawned has the
\* terminal result success false, and handling that result leaves the local
\* version as it was.
C16_SpawnFailureFails ==
    [][\A r \in Live :
          (Taken(r) /\ r.pc = "emitted" /\ r.applied = "nospawn")
              => /\ ~r.success
                 /\ cfgMem' = cfgMem
                 /\ cfgDisk' = cfgDisk]_vars

\* C17: every step of a session for an app id that has no entry in the remote
\* manifest leaves the staging directory, the installed directories and both
\* copies of the local manifest as they were, and the session ends with
\* success false, having applied nothing, its last status ERROR or CANCELLED.
C17_NoEntryNoEffects ==
    [][\A r \in Live :
          (Taken(r) /\ ~get_app_version_info(r.app).present)
              => /\ staged' = staged
                 /\ installed' = installed
                 /\ cfgMem' = cfgMem
                 /\ cfgDisk' = cfgDisk
                 /\ \A r2 \in BagToSet(workers') :
                        (Becomes(r, r2) /\ r2.pc = "emitted")
                            => /\ ~r2.success
                               /\ r2.applied = "none"
                               /\ r2.lastStatus \in {"error", "cancelled"}]_vars

\* A session for an app without a remote entry has ended Failed.
C17_NoEntrySessionEnded ==
    \E r \in Live : /\ ~get_app_version_info(r.app).present
                    /\ r.pc = "emitted"
                    /\ r.outcome = "noinfo"

\* The number of sessions of app a that hold the staged file open for writing
\* in the bag B of workers.
WritersIn(B, a) ==
    Copies(B, {r \in BagToSet(B) : r.app = a /\ r.pc = "stream"})

\* C18: when a session passes to its download no file is left at its staging
\* path, and the staged file a download writes is written by that session
\* only: no second session holds the same path open for writing.
C18_DownloadStartsClean ==
    [][/\ \A r \in Live : \A r2 \in BagToSet(workers') :
             (Becomes(r, r2) /\ r.pc \in {"cleanup", "start"} /\ r2.pc = "open")
                 => staged'[r.app].state = "absent"
       /\ \A a \in Apps : WritersIn(workers', a) <= 1]_vars

\* C19: the installed directory of an app is removed only by the apply step of
\* a session of that app, which comes after its download has completed; no
\* earlier step of a session removes it, so a session that fails while
\* downloading has left it in place.
C19_DirectoryRemovedOnlyWhenApplying ==
    [][\A a \in Apps :
          (installed[a] # "none" /\ installed'[a] = "none")
              => \E r \in Live : r.app = a /\ r.pc = "apply" /\ Taken(r)]_vars

\* C20: a step sets the status of a session to CANCELLED only when the status
\* before it was CHECKING, DOWNLOADING or VERIFYING; a cancellation that
\* arrives in IDLE, EXTRACTING, INSTALLING, COMPLETED or ERROR leaves the
\* status as it was.
C20_CancelledOnlyFromEarlyStates ==
    [][\A r \in Live : \A r2 \in BagToSet(workers') :
          (Becomes(r, r2) /\ r2.lastStatus = "cancelled"
              /\ r.lastStatus # "cancelled")
              => r.lastStatus \in {"checking", "downloading", "verifying"}]_vars

\* The tuple t with zeros appended up to three components.
Pad3(t) == [i \in 1..3 |-> IF i <= Len(t) THEN t[i] ELSE 0]

\* C21: a version with fewer than three components is compared as if padded
\* with zeros: compare_versions answers as the order of the padded tuples, so
\* "1.0" against "1.0.0" and "1" against "1.0.0" give 0.
C21_MissingComponentsAreZero ==
    call.op = "compare_versions" =>
        LET x == Pad3(parse_version(call.a))
            y == Pad3(parse_version(call.b))
        IN  call.ab = IF TupleLess(x, y) THEN -1
                      ELSE IF TupleLess(y, x) THEN 1 ELSE 0

\* C23: compare_versions returns for all inputs, strings int() rejects and
\* values that are no strings included, a value in {-1, 0, 1}; a value compares
\* 0 with itself, swapping the arguments negates the result, and -1 is
\* transitive.
C23_CompareIsTotalOrder ==
    call.op = "compare_versions" =>
        /\ {call.aa, call.ab, call.ba, call.bc, call.ac} \subseteq {-1, 0, 1}
        /\ call.aa = 0
        /\ call.ab = 0 - call.ba
        /\ (call.chain /\ call.ab = -1 /\ call.bc = -1) => call.ac = -1

\* A chain a < b < c was compared whose first value is no string and whose
\* other two differ in their number of components.
C23_ChainCompared ==
    /\ call.op = "compare_versions"
    /\ call.a = NonString
    /\ call.chain
    /\ call.ab = -1
    /\ call.bc = -1
    /\ Len(parse_version(call.b)) < Len(parse_version(call.c))

\* C22: for an id with a remote entry is_update_available answers true exactly
\* when compare_versions(local, remote version) is -1, and for an id without
\* a remote entry it answers false.
C22_AvailableIffOlder ==
    call.op = "is_update_available" =>
        LET info == get_app_version_info(call.app_id)
        IN  IF info.present
              THEN call.result
                       = (compare_versions(call.local_version, info.version) = -1)
              ELSE call.result = FALSE

\* The test was called for a local version newer than the remote one, and
\* answered.
C22_CalledForNewerLocal ==
    /\ call.op = "is_update_available"
    /\ get_app_version_info(call.app_id).present
    /\ compare_versions(call.local_version,
                        get_app_version_info(call.app_id).version) = 1

\* C24: is_update_needed answers true exactly when the local and the remote
\* version string are not equal character for character; a pair that differs
\* only in surrounding white space is an update.
C24_AnyDifferenceIsUpdate ==
    (/\ call.op = "is_update_needed"
     /\ call.local_version # NonString
     /\ call.remote_version # NonString)
        => call.result = (call.local_version # call.remote_version)

\* C25: for an existing file that could be read, verify_file_integrity answers
\* true exactly when the digest and the expected string are equal after both
\* are lower-cased.
C25_MatchIgnoresCase ==
    (/\ call.op = "verify_file_integrity"
     /\ call.file.state # "absent"
     /\ ~call.raised)
        => call.result = (Lower(call.file.digest) = Lower(call.expected))

\* A file was verified against its digest written in upper case.
C25_UpperCaseExpectedMatched ==
    /\ call.op = "verify_file_integrity"
    /\ call.file = CompleteFile(DigestGood)
    /\ call.expected = ShaExpected
    /\ call.result

\* C26: with an empty expected checksum verify_file_integrity answers true
\* for every file.
C26_EmptyExpectedAlwaysMatches ==
    (/\ call.op = "verify_file_integrity"
     /\ call.expected = <<>>
     /\ ~call.raised)
        => call.result

\* C27: calculate_sha256 raises for a missing file and returns nothing that
\* can be taken for a digest, and verify_file_integrity never answers true
\* for a missing file.
C27_MissingFileHasNoDigest ==
    /\ (call.op = "calculate_sha256" /\ call.file.state = "absent")
          => call.raised
    /\ (call.op = "verify_file_integrity" /\ call.file.state = "absent")
          => ~call.result

\* C28: the file name of a remote entry is its 'filename' when present, else
\* its 'file_name' when present, else "<id>.<file_type lower-cased>", for
\* every entry handed to get_remote_filename.
C28_RemoteFilenameRule ==
    call.op \in {"core.get_remote_filename", "update_test.get_remote_filename",
                 "update_app.filename"}
        => call.result =
               IF call.app_info.filename # NoField THEN call.app_info.filename
               ELSE IF call.app_info.file_name # NoField
                      THEN call.app_info.file_name
               ELSE <<call.app_info.id, ".", LowerType(call.app_info.file_type)>>

\* The keys of a dict, in order.
KeysOf(d) == [i \in DOMAIN d.items |-> d.items[i].key]

\* An entry without its version.
WithoutVersion(d) == SelectSeq(d.items, LAMBDA it : it.key # "version")

\* The place of the first entry of an id in a list of entries, 0 if none.
EntryOf(apps, app_id) ==
    LET own == {i \in DOMAIN apps :
                   Has(apps[i], "id") /\ Get(apps[i], "id") = Str(app_id)}
    IN  IF own = {} THEN 0 ELSE CHOOSE i \in own : \A j \in own : i <= j

\* C29: after update_local_version(A, v) and load(), the top-level keys and
\* their order, every value of a key other than "apps", the number and order
\* of the entries, and every entry but A's are what load() returned before;
\* A's entry differs in its version at most.
C29_CommitChangesVersionOnly ==
    (call.op = "load" /\ call.after = "commit" /\ ~call.raised)
        => LET old == call.before
               new == cfgMem
               a == EntryOf(AppsOf(old), call.id)
           IN  /\ KeysOf(new) = KeysOf(old)
               /\ \A i \in DOMAIN old.items :
                      old.items[i].key # "apps" => new.items[i] = old.items[i]
               /\ Len(AppsOf(new)) = Len(AppsOf(old))
               /\ \A i \in DOMAIN AppsOf(old) :
                      IF i = a
                        THEN WithoutVersion(AppsOf(new)[i])
                                 = WithoutVersion(AppsOf(old)[i])
                        ELSE AppsOf(new)[i] = AppsOf(old)[i]

\* C29 witness: a commit that changed the version of an entry which has a
\* neighbour, in a document with another top-level key, has been read back.
C29_CommittedAndReloaded ==
    /\ call.op = "load" /\ call.after = "commit" /\ ~call.raised
    /\ Len(KeysOf(call.before)) = 2
    /\ Len(AppsOf(call.before)) = 2
    /\ EntryOf(AppsOf(call.before), call.id) = 2
    /\ Has(AppsOf(call.before)[2], "version")
    /\ Get(AppsOf(call.before)[2], "version") # Str(call.version)
    /\ Get(AppsOf(cfgMem)[2], "version") = Str(call.version)

\* What a reader gets from one complete snapshot: the first entry of the id
\* or None, or an error where the document is not an object.
Seen(data, app_id) ==
    LET apps == AppsOrEmpty(data)
        own == {i \in DOMAIN apps : apps[i].id = app_id}
    IN  IF data.kind # "dict" THEN [rpc |-> "raised", result |-> NoInfo]
        ELSE IF own = {} THEN [rpc |-> "returned", result |-> NoInfo]
        ELSE [rpc |-> "returned",
              result |-> apps[CHOOSE i \in own : \A j \in own : i <= j]]

\* The document of the snapshot that was in place when the fetch began.
OldData == IF call.impl = "hub" THEN call.old.versions_data
           ELSE call.old.versions

\* The fetch under way can put a new snapshot in place.
NewSnapshotComes ==
    /\ call.outcome.fails = "none"
    /\ call.impl = "hub" => call.outcome.data.kind = "dict"

C31_CleanupKeepsOutcome ==
    \A r \in Live :
        /\ r.outcome # "cleanup"
        /\ (r.pc = "emitted" /\ r.applied = "extracted")
              => /\ r.success
                 /\ r.outcome = "completed"
                 /\ r.lastStatus = "completed"
                 /\ r.app \in commitLog

\* C32: a run that ends in success has gone through Checking, Downloading,
\* Verifying, Applying (extracting or installing) in this order, each once,
\* before its Completed; so no success is reported without a Verifying stage.
C32_StagesInOrder ==
    (call.op = "run" /\ call.finished = <<TRUE>>)
        => \E applying \in {"extracting", "installing"} :
               SelectSeq(call.status,
                         LAMBDA s : s \in {"checking", "downloading", "verifying",
                                           "extracting", "installing"})
                   = <<"checking", "downloading", "verifying", applying>>

\* What a pattern of the entry finds on the disk: the first file, or nothing
\* when the key is absent, the pattern empty or no file matches.
FirstMatch(pattern, found) ==
    IF pattern \in {NoField, EmptyPattern} \/ found = <<>> THEN NoPath
    ELSE found[1]

\* C33: launch_app launches the match of 'local_path' when there is one, the
\* match of 'installed_exe' only when local_path finds nothing, and nothing
\* when neither finds a file.
C33_LocalPathFirst ==
    call.op = "launch_app" =>
        LET local == FirstMatch(call.app_config.local_path, call.files.local)
            inst == FirstMatch(call.app_config.installed_exe,
                               call.files.installed)
        IN  call.launched = IF local # NoPath THEN local ELSE inst

\* C34: the status events of update_app(A) reach the signals of A's worker,
\* all of them, and the signals of no other worker; and while the session of
\* A is in flight current_status is the status that session set last.
C34_EventsReachOwnWorker ==
    call.op = "events" =>
        \A a \in Apps :
            /\ call.w[a].got \cap Apps \subseteq {a}
            /\ call.w[a].own = Len(call.w[a].sent)
            /\ (call.w[a].pc \in {"download", "verify", "process"})
                  => call.current_status = call.w[a].sent[Len(call.w[a].sent)]

\* C37: an update_app that returned True sent COMPLETED last, one that
\* returned False sent ERROR last, and each invocation sent exactly one
\* status that is COMPLETED or ERROR.
C37_ReturnAgreesWithStatus ==
    call.op = "events" =>
        \A a \in Apps :
            call.w[a].pc = "done" =>
                LET sent == call.w[a].sent
                    final == SelectSeq(sent,
                                       LAMBDA s : s \in {"completed", "error"})
                IN  /\ call.w[a].ret = TRUE => sent[Len(sent)] = "completed"
                    /\ call.w[a].ret = FALSE => sent[Len(sent)] = "error"
                    /\ Len(final) = 1

\* C35: the session of app "a" leaves the installed directory of app "b" as
\* it was, whatever the local_path pattern of "a" is.
C35_OtherAppUntouched ==
    call.op = "delete_old_app_folder" => call.after[DirOfB] = call.dirs[DirOfB]

\* C36: a session whose remote file_type is neither rar nor exe ends after
\* its download with success false, nothing extracted or launched, the version
\* as it was and no downloaded file left in the staging directory.
C36_UnknownTypeFailsClean ==
    [][\A r \in Live : \A r2 \in BagToSet(workers') :
          (/\ Becomes(r, r2)
           /\ r.pc = "apply"
           /\ r2.pc = "emitted"
           /\ LowerType(remote[r.app].file_type) \notin {"rar", "exe"})
              => /\ ~r2.success
                 /\ r2.applied = "none"
                 /\ installed' = installed
                 /\ cfgMem' = cfgMem
                 /\ cfgDisk' = cfgDisk
                 /\ staged'[r.app].state = "absent"]_vars

\* C38: the version a step commits for an app is the version of the remote
\* entry the session it handles was started with, also when the manifest was
\* fetched again while the session was in flight.
C38_CommitsDownloadedVersion ==
    [][\A r \in Live :
          (/\ Taken(r)
           /\ r.pc = "emitted"
           /\ cfgMem'[r.app] # cfgMem[r.app] \/ cfgDisk'[r.app] # cfgDisk[r.app])
              => /\ cfgMem'[r.app] = r.remote_info.version
                 /\ cfgDisk'[r.app] = r.remote_info.version]_vars

\* C39: a session that was started comes to its end: its finished signal is
\* emitted and handled, its thread leaves MainWindow._threads, and the Update
\* button of its app is enabled again.
C39_SessionTerminates ==
    \A a \in Apps :
        /\ (\E r \in Live : r.tracked /\ r.app = a)
              ~> (~\E r \in Live : r.tracked)
        /\ (\E r \in Live : r.tracked /\ r.app = a /\ r.pc # "handled")
              ~> ((~\E r \in Live : r.tracked /\ r.app = a /\ r.pc # "handled")
                    /\ btnEnabled[a])

\* The followed session has emitted finished while a second session of the
\* same app is in flight.
C39_FinishedBesideSecondSession ==
    \E r, r2 \in Live :
        /\ r.tracked /\ r.pc = "emitted"
        /\ ~r2.tracked /\ r2.app = r.app /\ InFlight(r2)

====
